---- MODULE Spec2Model ----
(***************************************************************************)
(* Configuration resolution engine of Auto-BOM-Creation-V2: catalog import *)
(* with inline logic formulas, the fixed-point logic solver, the selection *)
(* screen (grouping, validation, toggle, apply-all) and rule deployment.   *)
(*                                                                         *)
(* Text is modelled as a sequence of one-character strings, so that        *)
(* upper-casing, splitting, trimming and substring search are computed as  *)
(* the JavaScript code computes them.                                      *)
(*                                                                         *)
(* The repository holds two copies of the selection screen                 *)
(* (components/SelectionScreen.tsx and src/unnamed/part_001) and two       *)
(* copies of the synthesis laboratory (components/NeuralAcademy.tsx and    *)
(* src/unnamed/part_000).  The variable build says which pair of copies a    *)
(* behaviour runs; it never changes during a behaviour.                    *)
(***************************************************************************)
EXTENDS Integers, Sequences, FiniteSets, TLC

-----------------------------------------------------------------------------
(* Strings *)

LowerChars == <<"a","b","c","d","e","f","g","h","i","j","k","l","m",
                "n","o","p","q","r","s","t","u","v","w","x","y","z">>
UpperChars == <<"A","B","C","D","E","F","G","H","I","J","K","L","M",
                "N","O","P","Q","R","S","T","U","V","W","X","Y","Z">>

upperChar(c) ==
  IF \E i \in DOMAIN LowerChars : LowerChars[i] = c
  THEN UpperChars[CHOOSE i \in DOMAIN LowerChars : LowerChars[i] = c]
  ELSE c

lowerChar(c) ==
  IF \E i \in DOMAIN UpperChars : UpperChars[i] = c
  THEN LowerChars[CHOOSE i \in DOMAIN UpperChars : UpperChars[i] = c]
  ELSE c

RECURSIVE toUpperCase(_)
toUpperCase(s) ==
  IF s = <<>> THEN <<>> ELSE <<upperChar(Head(s))>> \o toUpperCase(Tail(s))

RECURSIVE toLowerCase(_)
toLowerCase(s) ==
  IF s = <<>> THEN <<>> ELSE <<lowerChar(Head(s))>> \o toLowerCase(Tail(s))

\* String.prototype.includes: sub occurs in s (the empty string occurs in every string).
includes(s, sub) ==
  \E i \in 0..(Len(s) - Len(sub)) : SubSeq(s, i + 1, i + Len(sub)) = sub

\* String.prototype.indexOf, 1-based; 0 when sub does not occur.
indexOf(s, sub) ==
  IF includes(s, sub)
  THEN CHOOSE i \in 1..(Len(s) - Len(sub) + 1) :
         /\ SubSeq(s, i, i + Len(sub) - 1) = sub
         /\ \A k \in 1..(i - 1) : SubSeq(s, k, k + Len(sub) - 1) # sub
  ELSE 0

\* s.replace(sub, rep) with a string pattern: the first occurrence only.
replaceFirst(s, sub, rep) ==
  LET i == indexOf(s, sub)
  IN IF i = 0 THEN s
     ELSE SubSeq(s, 1, i - 1) \o rep \o SubSeq(s, i + Len(sub), Len(s))

\* \s of the regular expressions.
WhiteSpace == {" "}

\* s.split(/[D]+/).filter(t => t.length > 0): the maximal runs of characters outside D.
RECURSIVE splitRuns(_, _)
splitRuns(s, D) ==
  IF s = <<>> THEN <<>>
  ELSE IF Head(s) \in D THEN splitRuns(Tail(s), D)
  ELSE LET n == CHOOSE k \in 1..Len(s) :
                  /\ \A j \in 1..k : s[j] \notin D
                  /\ (k = Len(s) \/ s[k + 1] \in D)
       IN <<SubSeq(s, 1, n)>> \o splitRuns(SubSeq(s, n + 1, Len(s)), D)

\* s.split(c) for a one-character separator: every piece, the empty ones included.
RECURSIVE splitChar(_, _)
splitChar(s, c) ==
  IF \A i \in DOMAIN s : s[i] # c THEN <<s>>
  ELSE LET i == CHOOSE k \in DOMAIN s : s[k] = c /\ \A j \in 1..(k - 1) : s[j] # c
       IN <<SubSeq(s, 1, i - 1)>> \o splitChar(SubSeq(s, i + 1, Len(s)), c)

RECURSIVE trimStart(_)
trimStart(s) ==
  IF s # <<>> /\ Head(s) \in WhiteSpace THEN trimStart(Tail(s)) ELSE s

RECURSIVE trimEnd(_)
trimEnd(s) ==
  IF s # <<>> /\ s[Len(s)] \in WhiteSpace THEN trimEnd(SubSeq(s, 1, Len(s) - 1)) ELSE s

trim(s) == trimEnd(trimStart(s))

Range(f) == {f[i] : i \in DOMAIN f}

RECURSIVE flatten(_)
flatten(ss) == IF ss = <<>> THEN <<>> ELSE Head(ss) \o flatten(Tail(ss))

\* All matches of the global regular expression  open [^close]+ close  in s from
\* position from on, left to right, each as <<first, last>>.
RECURSIVE regexMatches(_, _, _, _)
regexMatches(s, from, open, close) ==
  LET starts == {i \in from..Len(s) :
                   /\ s[i] = open
                   /\ \E j \in (i + 2)..Len(s) :
                        s[j] = close /\ \A k \in (i + 1)..(j - 1) : s[k] # close}
  IN IF starts = {} THEN <<>>
     ELSE LET i == CHOOSE a \in starts : \A b \in starts : a <= b
              j == CHOOSE e \in (i + 2)..Len(s) :
                     s[e] = close /\ \A k \in (i + 1)..(e - 1) : s[k] # close
          IN <<<<i, j>>>> \o regexMatches(s, j + 1, open, close)

-----------------------------------------------------------------------------
(* Formula parser of the catalog import (dialect with "/"-separated OR terms) *)

\* workingStr after workingStr.replace(match[0], ' ') for each match in turn.
RECURSIVE blankMatches(_, _, _)
blankMatches(working, str, ms) ==
  IF ms = <<>> THEN working
  ELSE blankMatches(replaceFirst(working, SubSeq(str, Head(ms)[1], Head(ms)[2]), <<" ">>),
                    str, Tail(ms))

orGroupOf(str, m) ==
  LET pieces == splitChar(SubSeq(str, m[1] + 1, m[2] - 1), "/")
      cleaned == [k \in DOMAIN pieces |-> toUpperCase(trim(pieces[k]))]
  IN SelectSeq(cleaned, LAMBDA t : Len(t) > 0)

excludesOf(str, m) ==
  LET items == splitRuns(SubSeq(str, m[1] + 1, m[2] - 1), WhiteSpace)
  IN [k \in DOMAIN items |-> toUpperCase(items[k])]

parseLogicString(str) ==
  LET orM == regexMatches(str, 1, "(", ")")
      notM == regexMatches(str, 1, "[", "]")
      groups == [k \in DOMAIN orM |-> orGroupOf(str, orM[k])]
      workingStr == blankMatches(blankMatches(str, str, orM), str, notM)
      remaining == splitRuns(workingStr, WhiteSpace)
  IN [includes |-> [k \in DOMAIN remaining |-> toUpperCase(remaining[k])],
      excludes |-> flatten([k \in DOMAIN notM |-> excludesOf(str, notM[k])]),
      orGroups |-> SelectSeq(groups, LAMBDA g : Len(g) > 0),
      raw |-> str]

-----------------------------------------------------------------------------
(* Numbers and identifiers read from spreadsheet cells *)

Digits == <<"0","1","2","3","4","5","6","7","8","9">>

isDigit(c) == \E i \in DOMAIN Digits : Digits[i] = c

digitValue(c) == (CHOOSE i \in DOMAIN Digits : Digits[i] = c) - 1

RECURSIVE digitsValue(_, _)
digitsValue(s, acc) ==
  IF s = <<>> \/ ~isDigit(Head(s)) THEN acc
  ELSE digitsValue(Tail(s), acc * 10 + digitValue(Head(s)))

\* parseInt of a cell: leading white space, an optional sign, the leading digits.
\* nan is TRUE when no digit follows (isNaN(parseInt(cell))).
parseInt(cell) ==
  LET t == trimStart(cell)
      neg == t # <<>> /\ Head(t) = "-"
      u == IF t # <<>> /\ Head(t) \in {"-", "+"} THEN Tail(t) ELSE t
  IN IF u = <<>> \/ ~isDigit(Head(u)) THEN [nan |-> TRUE, val |-> 0]
     ELSE [nan |-> FALSE,
           val |-> IF neg THEN 0 - digitsValue(u, 0) ELSE digitsValue(u, 0)]

isAlnumUpper(c) == isDigit(c) \/ \E i \in DOMAIN UpperChars : UpperChars[i] = c

RECURSIVE stripLeadingZeros(_)
stripLeadingZeros(s) ==
  IF s # <<>> /\ Head(s) = "0" THEN stripLeadingZeros(Tail(s)) ELSE s

\* The value undefined of a missing cell or field; no text equals it.
Undefined == <<"undefined">>

\* String(x || ''): the text itself, and the empty text for undefined.
orEmpty(x) == IF x = Undefined THEN <<>> ELSE x

\* String(id || '').toUpperCase().replace(/[^A-Z0-9]/g, '').replace(/^0+/, '')
normalizeId(id) ==
  stripLeadingZeros(SelectSeq(toUpperCase(orEmpty(id)), isAlnumUpper))

-----------------------------------------------------------------------------
(* Application state *)

VARIABLES
  build,                 \* which copy of the screens runs: "components" or "unnamed"
  parts,                 \* the catalog: a sequence of parts
  rules,                 \* the engineering rules: a sequence of rules
  selectedIds,           \* the user selection: a set of part ids
  moSelectedIds,         \* the order-matched parts: a set of part ids
  searchTerm,            \* the search box of the selection screen
  proposals,             \* the synthesized proposals of the laboratory
  now,                   \* Date.now() of the next catalog import
  currentLogicSelected,  \* solver: the triggered ids, in insertion order
  firedInPass,           \* solver: the pass in which each triggered id was added
  changed,               \* solver: the loop's changed flag
  iterations,            \* solver: the loop's pass counter
  edits,                 \* number of part edits made
  switches,              \* number of rule activations/deactivations made
  lastOp,                \* the handler that ran last ("" before the first)
  labRules,              \* the laboratory rules of the order-matching screen
  results,               \* the outcomes shown by the order-matching screen
  allOptions,            \* order run: the options of the order processed last
  resultsBatch,          \* order run: the outcome computed for each option
  logicVerified,         \* order run: the entries of the rule-verified parts
  detectedModel,         \* order run: the model whose history was consulted
  modelName,             \* the machine model shown by the order screen
  knowledgeBase,         \* the learned mappings, per machine model
  glossary,              \* the technical glossary: <<abbreviation, expansion>> pairs
  isProcessing,          \* order screen: the processing flag
  error,                 \* order screen: the error message, or null
  inFlight,              \* order runs awaiting the extraction service, oldest first
  settled,               \* the responses of the order run that settled last
  isTraining,            \* laboratory: the training flag
  cooldownRemaining,     \* laboratory: the seconds of cooldown left
  checkpoint,            \* laboratory: the proposals stored under STORAGE_KEY
  allSkus,               \* laboratory: the part numbers of the uploaded datasets
  skusToProcess,         \* synthesis run: the part numbers still to synthesize
  clusterStart,          \* synthesis run: the loop index i
  retryCount,            \* synthesis run: the retry counter of the cluster
  synthPc,               \* synthesis run: where startLogicSynthesis stands
  requests,              \* synthesis run: requests sent for the cluster so far
  sent,                  \* synthesis run: part numbers sent to the service
  call,                  \* function application: the function and its arguments
  value,                 \* function application: the value returned last
  applied                \* function application: how often it has been applied

vars == <<build, parts, rules, selectedIds, moSelectedIds, searchTerm, proposals,
          now, currentLogicSelected, firedInPass, changed, iterations, edits, switches,
          lastOp, labRules, results, allOptions, resultsBatch, logicVerified, detectedModel,
          modelName, knowledgeBase, glossary, isProcessing, error, inFlight, settled,
          isTraining, cooldownRemaining, checkpoint, allSkus, skusToProcess, clusterStart,
          retryCount, synthPc, requests, sent, call, value, applied>>

solverVars == <<currentLogicSelected, firedInPass, changed, iterations>>

orderVars == <<labRules, results, allOptions, resultsBatch, logicVerified, detectedModel,
               modelName, knowledgeBase, glossary, isProcessing, error, inFlight, settled>>

appVars == <<build, parts, rules, selectedIds, moSelectedIds, searchTerm, proposals, now,
             edits, switches, lastOp>>

synthVars == <<skusToProcess, clusterStart, retryCount, synthPc, requests, sent>>

labVars == <<isTraining, cooldownRemaining, checkpoint, allSkus, synthVars>>

pureVars == <<call, value, applied>>

\* The error message of the order screen: null and the four messages.
NoError == "null"

ImportFirst == "Please import the Master BOM Repository first."

NoMatchingSkus == "No matching SKUs found in the uploaded CSV."

ApiKeyMissing == "API Key Missing"

ProcessingFailed == "Processing failed"

Builds == {"components", "unnamed"}

partIds == {parts[i].id : i \in DOMAIN parts}

partById(id) == parts[CHOOSE i \in DOMAIN parts : parts[i].id = id]

-----------------------------------------------------------------------------
(* Fixed-point logic solver of the selection screen *)

MAX_ITERATIONS == 5

SolverDelims == WhiteSpace \cup {",", ".", "_", "+", "/", "(", ")", "[", "]"}

partText(p) ==
  p.Part_Number \o <<" ">> \o p.Name \o <<" ">> \o p.Remarks \o <<" ">> \o p.Std_Remarks

tokenize(p) == Range(splitRuns(toUpperCase(partText(p)), SolverDelims))

baseTokens ==
  UNION {tokenize(parts[i]) : i \in {j \in DOMAIN parts : parts[j].F_Code = 0}}

\* currentContextTokens without the order-matched parts: the mandatory parts'
\* tokens and the tokens of the selected and the triggered parts only.
currentContextTokens_noOrder(cur) ==
  baseTokens \cup
  UNION {tokenize(parts[i]) :
           i \in {j \in DOMAIN parts : parts[j].id \in selectedIds \cup cur}}

\* The context of one pass: the mandatory parts' tokens and the tokens of every
\* part that is selected, order-matched or already triggered (cur: a set of ids).
currentContextTokens(cur) ==
  baseTokens \cup
  UNION {tokenize(parts[i]) :
           i \in {j \in DOMAIN parts :
                    parts[j].id \in selectedIds \cup moSelectedIds \cup cur}}

\* The three tests of the solver loop on one rule's logic.
solverSatisfied(logic, ctx) ==
  /\ \A k \in DOMAIN logic.includes : toUpperCase(logic.includes[k]) \in ctx
  /\ ~ \E k \in DOMAIN logic.excludes : toUpperCase(logic.excludes[k]) \in ctx
  /\ \A g \in DOMAIN logic.orGroups :
       \E k \in DOMAIN logic.orGroups[g] : toUpperCase(logic.orGroups[g][k]) \in ctx

\* The rule is skipped: inactive, or its target already selected, order-matched
\* or triggered.
solverSkips(rule, cur) ==
  \/ ~rule.isActive
  \/ rule.targetPartId \in selectedIds
  \/ rule.targetPartId \in moSelectedIds
  \/ rule.targetPartId \in cur

\* The same test in the copy of the screen in src/unnamed/part_001.
solverSkips_part001(rule, cur) ==
  \/ ~rule.isActive
  \/ rule.targetPartId \in selectedIds
  \/ rule.targetPartId \in cur

\* solverFires with the context rebuilt from the ids triggered so far in the
\* same pass instead of the context built at the start of the pass.
solverFires_live(rule, cur, ctx) ==
  /\ ~(IF build = "components" THEN solverSkips(rule, cur)
                               ELSE solverSkips_part001(rule, cur))
  /\ rule.targetPartId \in partIds
  /\ solverSatisfied(rule.logic, currentContextTokens(cur))

\* solverFires with a break after the first rule that fires: a rule fires only
\* while the pass has not added a part yet.
solverFires_break(rule, cur, ctx) ==
  /\ ~(IF build = "components" THEN solverSkips(rule, cur)
                               ELSE solverSkips_part001(rule, cur))
  /\ rule.targetPartId \in partIds
  /\ solverSatisfied(rule.logic, ctx)
  /\ cur = Range(currentLogicSelected)

solverFires(rule, cur, ctx) ==
  /\ ~(IF build = "components" THEN solverSkips(rule, cur)
                               ELSE solverSkips_part001(rule, cur))
  /\ rule.targetPartId \in partIds
  /\ solverSatisfied(rule.logic, ctx)

\* for (const rule of rules): the ids triggered so far, in insertion order; ctx
\* is fixed for the whole pass.
RECURSIVE forRules(_, _, _)
forRules(k, cur, ctx) ==
  IF k > Len(rules) THEN cur
  ELSE forRules(k + 1,
                IF solverFires(rules[k], Range(cur), ctx)
                THEN Append(cur, rules[k].targetPartId) ELSE cur,
                ctx)

\* The loop condition without the iteration cap.
solverContinues_noCap == changed

\* while (changed && iterations < MAX_ITERATIONS)
solverContinues == changed /\ iterations < MAX_ITERATIONS

\* The value of the logicSelectedIds memo once the loop has returned.
logicSelectedIds == Range(currentLogicSelected)

\* One pass of the while loop.
solverPass ==
  /\ solverContinues
  /\ LET ctx == currentContextTokens(Range(currentLogicSelected))
         next == forRules(1, currentLogicSelected, ctx)
     IN /\ currentLogicSelected' = next
        /\ changed' = (Len(next) > Len(currentLogicSelected))
        /\ firedInPass' = firedInPass \o
             [k \in 1..(Len(next) - Len(currentLogicSelected)) |-> iterations + 1]
  /\ iterations' = iterations + 1
  /\ UNCHANGED orderVars
  /\ UNCHANGED labVars
  /\ UNCHANGED pureVars
  /\ UNCHANGED <<build, parts, rules, selectedIds, moSelectedIds, searchTerm,
                 proposals, now, edits, switches, lastOp>>

\* A dependency of the memo changed: the solver starts afresh on the next render.
restartSolver ==
  /\ currentLogicSelected' = <<>>
  /\ firedInPass' = <<>>
  /\ changed' = TRUE
  /\ iterations' = 0

-----------------------------------------------------------------------------
(* Logic evaluator of the order-matching screen *)

\* The three-tier match of an include or OR term: token membership, raw
\* substring, or a token that contains the term or is contained in it.
fuzzyMatch(term, moContextTokens, rawUpper) ==
  LET target == toUpperCase(term)
  IN \/ target \in moContextTokens
     \/ includes(rawUpper, target)
     \/ \E token \in moContextTokens : includes(token, target) \/ includes(target, token)

\* evaluateLogic with the exclude terms looked up among the tokens only.
evaluateLogic_tokenExcludes(rule, moContextTokens, moContextRaw) ==
  LET inc == rule.logic.includes
      exc == rule.logic.excludes
      org == rule.logic.orGroups
      rawUpper == toUpperCase(moContextRaw)
      hasAllIncludes == \A k \in DOMAIN inc : fuzzyMatch(inc[k], moContextTokens, rawUpper)
      hasAnyExcludes == \E k \in DOMAIN exc : toUpperCase(exc[k]) \in moContextTokens
      matchesAllOrGroups == \A g \in DOMAIN org : \E k \in DOMAIN org[g] :
                              fuzzyMatch(org[g][k], moContextTokens, rawUpper)
  IN /\ ~(Len(inc) > 0 /\ ~hasAllIncludes)
     /\ ~(Len(exc) > 0 /\ hasAnyExcludes)
     /\ ~(Len(org) > 0 /\ ~matchesAllOrGroups)
     /\ (Len(inc) > 0 \/ Len(org) > 0)

evaluateLogic(rule, moContextTokens, moContextRaw) ==
  LET inc == rule.logic.includes
      exc == rule.logic.excludes
      org == rule.logic.orGroups
      rawUpper == toUpperCase(moContextRaw)
      hasAllIncludes == \A k \in DOMAIN inc : fuzzyMatch(inc[k], moContextTokens, rawUpper)
      hasAnyExcludes == \E k \in DOMAIN exc :
                          \/ toUpperCase(exc[k]) \in moContextTokens
                          \/ includes(rawUpper, toUpperCase(exc[k]))
      matchesAllOrGroups == \A g \in DOMAIN org : \E k \in DOMAIN org[g] :
                              fuzzyMatch(org[g][k], moContextTokens, rawUpper)
  IN /\ ~(Len(inc) > 0 /\ ~hasAllIncludes)
     /\ ~(Len(exc) > 0 /\ hasAnyExcludes)
     /\ ~(Len(org) > 0 /\ ~matchesAllOrGroups)
     /\ (Len(inc) > 0 \/ Len(org) > 0)

-----------------------------------------------------------------------------
(* Selection screen: grouping, validation, toggle, apply-all *)

isConfig(p) == p.F_Code = 1 \/ p.F_Code = 2 \/ p.F_Code = 9

configParts == SelectSeq(parts, isConfig)

General == <<"G","e","n","e","r","a","l">>

\* The machine model's name before an order names one.
Generic == <<"G","e","n","e","r","i","c">>

groupKey(p) == IF p.Ref_des = <<>> THEN General ELSE p.Ref_des

\* The part passes the search filter of groupedParts.
matchesSearch(p) ==
  LET lowerQ == toLowerCase(searchTerm)
  IN \/ lowerQ = <<>>
     \/ includes(toLowerCase(p.Part_Number), lowerQ)
     \/ includes(toLowerCase(p.Name), lowerQ)
     \/ includes(toLowerCase(p.Ref_des), lowerQ)

RECURSIVE distinctKeys(_, _)
distinctKeys(ps, seen) ==
  IF ps = <<>> THEN seen
  ELSE distinctKeys(Tail(ps),
                    IF \E i \in DOMAIN seen : seen[i] = groupKey(Head(ps))
                    THEN seen ELSE Append(seen, groupKey(Head(ps))))

\* p.Select_pref || 9999, minimised over the group.
minPref(items) ==
  LET prefs == {IF items[i].Select_pref = 0 THEN 9999 ELSE items[i].Select_pref :
                  i \in DOMAIN items}
  IN CHOOSE m \in prefs : \A n \in prefs : m <= n

\* Object.entries(groups), in insertion order, stably sorted by minPref: a
\* sequence of <<key, items>>.
groupedParts ==
  LET shown == SelectSeq(configParts, matchesSearch)
      keys == distinctKeys(shown, <<>>)
      entry(i) == <<keys[i], SelectSeq(shown, LAMBDA p : groupKey(p) = keys[i])>>
      before(i, j) == \/ minPref(entry(i)[2]) < minPref(entry(j)[2])
                      \/ minPref(entry(i)[2]) = minPref(entry(j)[2]) /\ i < j
      rank(i) == Cardinality({j \in DOMAIN keys : before(j, i)}) + 1
  IN [r \in DOMAIN keys |-> entry(CHOOSE i \in DOMAIN keys : rank(i) = r)]

\* groupedParts.find(([k]) => k === key)?.[1] || []
groupItems(key) ==
  IF \E g \in DOMAIN groupedParts : groupedParts[g][1] = key
  THEN groupedParts[CHOOSE g \in DOMAIN groupedParts : groupedParts[g][1] = key][2]
  ELSE <<>>

idsOf(items) == {items[i].id : i \in DOMAIN items}

containsF2(items) == \E i \in DOMAIN items : items[i].F_Code = 2

\* Math.round(((total - missing) / total) * 100), or 100 without exclusive groups.
progressOf(total, missing) ==
  IF total > 0 THEN ((total - missing) * 200 + total) \div (2 * total) ELSE 100

\* The validation memo of components/SelectionScreen.tsx.
validation ==
  LET f2 == {g \in DOMAIN groupedParts : containsF2(groupedParts[g][2])}
      missing == {g \in f2 :
                    idsOf(groupedParts[g][2]) \cap
                      (selectedIds \cup moSelectedIds \cup logicSelectedIds) = {}}
      names == SelectSeq([g \in DOMAIN groupedParts |-> g], LAMBDA g : g \in missing)
  IN [isValid |-> Cardinality(missing) = 0,
      progress |-> progressOf(Cardinality(f2), Cardinality(missing)),
      missingGroupNames |-> [k \in DOMAIN names |-> groupedParts[names[k]][1]]]

\* The validation memo of src/unnamed/part_001: logic-triggered parts do not count.
validation_part001 ==
  LET f2 == {g \in DOMAIN groupedParts : containsF2(groupedParts[g][2])}
      missing == {g \in f2 :
                    idsOf(groupedParts[g][2]) \cap (selectedIds \cup moSelectedIds) = {}}
  IN [isValid |-> Cardinality(missing) = 0,
      progress |-> progressOf(Cardinality(f2), Cardinality(missing))]

\* validation.isValid and validation.progress of the running copy.
isValid == IF build = "components" THEN validation.isValid ELSE validation_part001.isValid

progress == IF build = "components" THEN validation.progress ELSE validation_part001.progress

\* Every render has finished: the solver loop has returned.
rendered == ~solverContinues

\* The set next of toggleSelection(part).
toggled(part) ==
  IF part.id \in selectedIds THEN selectedIds \ {part.id}
  ELSE IF part.F_Code = 2
       THEN (selectedIds \ idsOf(groupItems(groupKey(part)))) \cup {part.id}
       ELSE selectedIds \cup {part.id}

\* Upper bound on the number of parts the user has picked at one time.
MaxPicks == 2

\* A click on one of the part buttons the screen shows.
toggleSelection ==
  /\ rendered
  /\ \E g \in DOMAIN groupedParts : \E i \in DOMAIN groupedParts[g][2] :
       LET part == groupedParts[g][2][i]
       IN /\ part.id \in selectedIds \/ Cardinality(selectedIds) < MaxPicks
          /\ selectedIds' = toggled(part)
  /\ lastOp' = "toggleSelection"
  /\ restartSolver
  /\ UNCHANGED orderVars
  /\ UNCHANGED labVars
  /\ UNCHANGED pureVars
  /\ UNCHANGED <<build, parts, rules, moSelectedIds, searchTerm, proposals, now,
                 edits, switches>>

\* moSelectedIds.forEach of handleApplyAllSuggestions (Priority 1), ids in the
\* order of the sequence order.
RECURSIVE applyMO(_, _)
applyMO(order, next) ==
  IF order = <<>> THEN next
  ELSE LET id == Head(order)
           evict == IF id \in partIds /\ partById(id).F_Code = 2
                    THEN idsOf(groupItems(groupKey(partById(id)))) ELSE {}
       IN applyMO(Tail(order), (next \ evict) \cup {id})

\* logicSelectedIds.forEach of handleApplyAllSuggestions (Priority 2).
RECURSIVE applyLogic(_, _)
applyLogic(order, next) ==
  IF order = <<>> THEN next
  ELSE LET id == Head(order)
           blocked == /\ id \in partIds
                      /\ partById(id).F_Code = 2
                      /\ idsOf(groupItems(groupKey(partById(id)))) \cap next # {}
       IN applyLogic(Tail(order), IF blocked THEN next ELSE next \cup {id})

\* The insertion orders a Set holding the ids S can have.
orderings(S) ==
  {o \in [1..Cardinality(S) -> S] : \A i, j \in DOMAIN o : o[i] = o[j] => i = j}

\* appliedAll with the solver's picks applied the way order matches are: evicting
\* the members of their group.
appliedAll_evicting(moOrder) == applyMO(currentLogicSelected, applyMO(moOrder, selectedIds))

\* The set handed to onSelectionChange by handleApplyAllSuggestions of
\* components/SelectionScreen.tsx, moSelectedIds iterated in the order moOrder.
appliedAll(moOrder) == applyLogic(currentLogicSelected, applyMO(moOrder, selectedIds))

\* The same for the copy in src/unnamed/part_001.
appliedAll_part001 == selectedIds \cup moSelectedIds \cup logicSelectedIds

handleApplyAllSuggestions ==
  /\ rendered
  /\ \E moOrder \in orderings(moSelectedIds) :
       selectedIds' = IF build = "components" THEN appliedAll(moOrder)
                                              ELSE appliedAll_part001
  /\ lastOp' = "handleApplyAllSuggestions"
  /\ restartSolver
  /\ UNCHANGED orderVars
  /\ UNCHANGED labVars
  /\ UNCHANGED pureVars
  /\ UNCHANGED <<build, parts, rules, moSelectedIds, searchTerm, proposals, now,
                 edits, switches>>

\* What the user may type into the search box.
SearchTerms == {<<>>, <<"b","e","t","a">>, <<"l","a","m","p">>}

setSearchTerm ==
  /\ rendered
  /\ \E q \in SearchTerms : q # searchTerm /\ searchTerm' = q
  /\ lastOp' = "setSearchTerm"
  /\ UNCHANGED orderVars
  /\ UNCHANGED labVars
  /\ UNCHANGED pureVars
  /\ UNCHANGED <<build, parts, rules, selectedIds, moSelectedIds, proposals, now,
                 edits, switches, solverVars>>

\* Upper bound on the number of parts one order run auto-selects.
MaxAuto == 1

\* onAutoSelect(autoSelectedIds) of an order run: a non-empty set of catalog ids
\* becomes the order-matched set.
onAutoSelect ==
  /\ rendered
  /\ \E ids \in SUBSET partIds :
       /\ ids # {}
       /\ Cardinality(ids) <= MaxAuto
       /\ ids # moSelectedIds
       /\ moSelectedIds' = ids
  /\ lastOp' = "onAutoSelect"
  /\ restartSolver
  /\ UNCHANGED orderVars
  /\ UNCHANGED labVars
  /\ UNCHANGED pureVars
  /\ UNCHANGED <<build, parts, rules, selectedIds, searchTerm, proposals, now,
                 edits, switches>>

-----------------------------------------------------------------------------
(* Catalog import, part edit, rule deployment *)

UnnamedItem == <<"U","n","n","a","m","e","d"," ","I","t","e","m">>

\* One row of the sheet as a part; stamp is Date.now(), index the row number from 0.
mappedPart(row, stamp, index) ==
  [id |-> <<stamp, index>>,
   Part_Number |-> row.pn,
   Name |-> IF row.name = <<>> THEN UnnamedItem ELSE row.name,
   Remarks |-> row.rem,
   Std_Remarks |-> row.stdRem,
   F_Code |-> IF parseInt(row.fcode).nan THEN 0 ELSE parseInt(row.fcode).val,
   Ref_des |-> row.ref,
   Select_pref |-> IF parseInt(row.pref).nan THEN 999999 ELSE parseInt(row.pref).val]

mappedParts(sheet, stamp) ==
  [k \in DOMAIN sheet |-> mappedPart(sheet[k], stamp, k - 1)]

\* The rule list after one row's formula: the rule of the target is superseded
\* in place, or a new active rule is appended.
importRule(newRules, target, parsed) ==
  IF \E i \in DOMAIN newRules : newRules[i].targetPartId = target
  THEN LET idx == CHOOSE i \in DOMAIN newRules :
                    /\ newRules[i].targetPartId = target
                    /\ \A j \in 1..(i - 1) : newRules[j].targetPartId # target
       IN [newRules EXCEPT ![idx].logic = parsed]
  ELSE Append(newRules, [targetPartId |-> target, logic |-> parsed, isActive |-> TRUE])

\* data.forEach of the import: rules are derived for configurable parts whose
\* row has a formula.
RECURSIVE autoRules(_, _, _, _)
autoRules(k, newRules, sheet, mapped) ==
  IF k > Len(sheet) THEN newRules
  ELSE autoRules(k + 1,
                 IF isConfig(mapped[k]) /\ sheet[k].logic # <<>>
                 THEN importRule(newRules, mapped[k].id, parseLogicString(sheet[k].logic))
                 ELSE newRules,
                 sheet, mapped)

\* Upper bound on the number of catalog imports of a behaviour.
MaxImports == 1

\* BOMTable.handleFileUpload: the reader's onload for a sheet with rows.
BOMTable_handleFileUpload(sheet) ==
  /\ rendered
  /\ now <= MaxImports
  /\ Len(sheet) > 0
  /\ parts' = mappedParts(sheet, now)
  /\ rules' = autoRules(1, rules, sheet, mappedParts(sheet, now))
  /\ now' = now + 1
  /\ lastOp' = "handleFileUpload"
  /\ restartSolver
  /\ UNCHANGED orderVars
  /\ UNCHANGED labVars
  /\ UNCHANGED pureVars
  /\ UNCHANGED <<build, selectedIds, moSelectedIds, searchTerm, proposals, edits, switches>>

\* Function codes the part editor may set.
EditFCodes == {0, 2, 5}

\* Upper bound on the number of part edits of a behaviour.
MaxEdits == 1

\* onUpdate of the part detail editor: the edited part replaces the part with its id.
onUpdate ==
  /\ rendered
  /\ edits < MaxEdits
  /\ \E i \in DOMAIN parts : \E f \in EditFCodes :
       /\ f # parts[i].F_Code
       /\ parts' = [parts EXCEPT ![i].F_Code = f]
  /\ edits' = edits + 1
  /\ lastOp' = "onUpdate"
  /\ restartSolver
  /\ UNCHANGED orderVars
  /\ UNCHANGED labVars
  /\ UNCHANGED pureVars
  /\ UNCHANGED <<build, rules, selectedIds, moSelectedIds, searchTerm, proposals, now,
                 switches>>

\* Upper bound on the number of rule activations/deactivations of a behaviour.
MaxSwitches == 1

\* The rule editor switches a rule on or off.
setRuleActive ==
  /\ rendered
  /\ switches < MaxSwitches
  /\ \E i \in DOMAIN rules : rules' = [rules EXCEPT ![i].isActive = ~rules[i].isActive]
  /\ switches' = switches + 1
  /\ lastOp' = "setRuleActive"
  /\ restartSolver
  /\ UNCHANGED orderVars
  /\ UNCHANGED labVars
  /\ UNCHANGED pureVars
  /\ UNCHANGED <<build, parts, selectedIds, moSelectedIds, searchTerm, proposals, now,
                 edits>>

\* The logic object deployLogic of components/NeuralAcademy.tsx builds.
logicObj(expression) ==
  [includes |-> <<>>, excludes |-> <<>>, orGroups |-> <<>>, raw |-> expression]

\* parseFormula inside deployLogic of src/unnamed/part_000.
parseFormula(str) ==
  LET orM == regexMatches(str, 1, "(", ")")
      notM == regexMatches(str, 1, "[", "]")
      groups == [k \in DOMAIN orM |-> orGroupOf(str, orM[k])]
      workingStr == blankMatches(blankMatches(str, str, orM), str, notM)
      remaining == splitRuns(workingStr, WhiteSpace)
  IN [includes |-> [k \in DOMAIN remaining |-> toUpperCase(remaining[k])],
      excludes |-> flatten([k \in DOMAIN notM |-> excludesOf(str, notM[k])]),
      orGroups |-> SelectSeq(groups, LAMBDA g : Len(g) > 0),
      raw |-> str]

\* The rule list after one proposal's logic object for its target.
deployRule(newRules, target, logic) ==
  IF \E i \in DOMAIN newRules : newRules[i].targetPartId = target
  THEN LET idx == CHOOSE i \in DOMAIN newRules :
                    /\ newRules[i].targetPartId = target
                    /\ \A j \in 1..(i - 1) : newRules[j].targetPartId # target
       IN [newRules EXCEPT ![idx].logic = logic]
  ELSE Append(newRules, [targetPartId |-> target, logic |-> logic, isActive |-> TRUE])

\* proposals.forEach of deployLogic: a proposal whose part number matches no
\* catalog part (by normalizeId) is skipped; logics[k] is the logic object of
\* proposal k.
RECURSIVE deployed(_, _, _)
deployed(k, newRules, logics) ==
  IF k > Len(proposals) THEN newRules
  ELSE LET hits == {i \in DOMAIN parts :
                      normalizeId(parts[i].Part_Number) = normalizeId(proposals[k].partNumber)}
       IN deployed(k + 1,
                   IF hits = {} THEN newRules
                   ELSE deployRule(newRules,
                                   parts[CHOOSE i \in hits : \A j \in hits : i <= j].id,
                                   logics[k]),
                   logics)

deployLogic ==
  /\ rendered
  /\ Len(proposals) > 0
  /\ rules' = deployed(1, rules,
                [k \in DOMAIN proposals |->
                   IF build = "components" THEN logicObj(proposals[k].proposedExpression)
                   ELSE parseFormula(proposals[k].proposedExpression)])
  /\ proposals' = <<>>
  /\ checkpoint' = <<>>
  /\ lastOp' = "deployLogic"
  /\ restartSolver
  /\ UNCHANGED orderVars
  /\ UNCHANGED <<isTraining, cooldownRemaining, allSkus, synthVars>>
  /\ UNCHANGED pureVars
  /\ UNCHANGED <<build, parts, selectedIds, moSelectedIds, searchTerm, now, edits, switches>>

-----------------------------------------------------------------------------
(* Order matching: scores *)

\* Scores are exact fractions [n, d] in lowest terms.
RECURSIVE gcd(_, _)
gcd(a, b) == IF b = 0 THEN a ELSE gcd(b, a % b)

Rat(n, d) == IF n = 0 THEN [n |-> 0, d |-> 1] ELSE [n |-> n \div gcd(n, d), d |-> d \div gcd(n, d)]

ratLess(a, b) == a.n * b.d < b.n * a.d

ratGeq(a, b) == ~ratLess(a, b)

\* The sum of two scores.
Math_sum(a, b) == Rat(a.n * b.d + b.n * a.d, a.d * b.d)

Math_max(a, b) == IF ratLess(a, b) THEN b ELSE a

Math_min(a, b) == IF ratLess(b, a) THEN b ELSE a

-----------------------------------------------------------------------------
(* Order matching: part index *)

STOP_WORDS ==
  {<<"W","I","T","H">>, <<"A","N","D">>, <<"T","H","E">>, <<"F","O","R">>, <<"N","O","N">>, <<"N","O","N","E">>, <<"S","E","L","E","C","T","E","D">>, <<"U","N","I","T">>,
   <<"O","P","T","I","O","N","S">>, <<"O","R">>, <<"I","S">>, <<"O","F">>, <<"I","N">>, <<"B","Y">>}

\* normalize with the leading zeros removed before the punctuation.
normalize_zerosFirst(s) ==
  SelectSeq(toUpperCase(stripLeadingZeros(orEmpty(s))), isAlnumUpper)

\* normalize of MOProvision.
normalize(s) == stripLeadingZeros(SelectSeq(toUpperCase(orEmpty(s)), isAlnumUpper))

\* The separators of split(/[\s,./()]+/).
OrderDelims == WhiteSpace \cup {",", ".", "/", "(", ")"}

\* s.split(/[\s,./()]+/).filter(t => t.length > 2), duplicates kept.
longTokens(s) == SelectSeq(splitRuns(s, OrderDelims), LAMBDA t : Len(t) > 2)

\* technicalSource after Object.entries(glossary).forEach: the expansion of every
\* abbreviation found in the text so far is appended.
RECURSIVE expanded(_, _)
expanded(technicalSource, entries) ==
  IF entries = <<>> THEN technicalSource
  ELSE expanded(IF includes(technicalSource, Head(entries)[1])
                THEN technicalSource \o <<" ">> \o Head(entries)[2]
                ELSE technicalSource,
                Tail(entries))

indexedPart(p) ==
  LET technicalSource ==
        expanded(toUpperCase(p.Name \o <<" ">> \o p.Remarks \o <<" ">> \o p.Std_Remarks
                             \o <<" ">> \o p.Ref_des),
                 glossary)
  IN [part |-> p,
      tokens |-> {t \in Range(longTokens(technicalSource)) : t \notin STOP_WORDS},
      pn |-> normalize(p.Part_Number),
      ref |-> toUpperCase(p.Ref_des)]

partIndex == [i \in DOMAIN parts |-> indexedPart(parts[i])]

-----------------------------------------------------------------------------
(* Order matching: laboratory formulas (dialect with OR inside the brackets) *)

\* s.split(/\s+OR\s+/i) of an upper-cased string.
RECURSIVE splitOr(_)
splitOr(s) ==
  LET matchEnd(i) ==
        \* the last position of the match of \s+OR\s+ that starts at i, or 0
        IF \E j \in i..Len(s) :
             /\ \A k \in i..j : s[k] \in WhiteSpace
             /\ j + 3 <= Len(s)
             /\ s[j + 1] = "O" /\ s[j + 2] = "R" /\ s[j + 3] \in WhiteSpace
        THEN LET j == CHOOSE e \in i..Len(s) :
                        /\ \A k \in i..e : s[k] \in WhiteSpace
                        /\ e + 3 <= Len(s)
                        /\ s[e + 1] = "O" /\ s[e + 2] = "R" /\ s[e + 3] \in WhiteSpace
             IN CHOOSE e \in (j + 3)..Len(s) :
                  /\ \A k \in (j + 3)..e : s[k] \in WhiteSpace
                  /\ (e = Len(s) \/ s[e + 1] \notin WhiteSpace)
        ELSE 0
      starts == {i \in DOMAIN s : matchEnd(i) # 0}
  IN IF starts = {} THEN <<s>>
     ELSE LET i == CHOOSE a \in starts : \A b \in starts : a <= b
          IN <<SubSeq(s, 1, i - 1)>> \o splitOr(SubSeq(s, matchEnd(i) + 1, Len(s)))

\* m.replace(/[\[\]]/g, '') and m.replace(/[()]/g, ''): the characters of D removed.
without(s, D) == SelectSeq(s, LAMBDA c : c \notin D)

\* s.replace(/open[^close]+close/g, ''): every match removed.
removeMatches(s, open, close) ==
  LET ms == regexMatches(s, 1, open, close)
  IN [k \in 1..Cardinality({i \in DOMAIN s : \A m \in DOMAIN ms : i < ms[m][1] \/ i > ms[m][2]})
        |-> s[CHOOSE i \in DOMAIN s :
                /\ \A m \in DOMAIN ms : i < ms[m][1] \/ i > ms[m][2]
                /\ Cardinality({j \in 1..i : \A m \in DOMAIN ms : j < ms[m][1] \/ j > ms[m][2]}) = k]]

trimmedAll(pieces) == [k \in DOMAIN pieces |-> trim(pieces[k])]

parseLabFormula(formula) ==
  LET exMatches == regexMatches(formula, 1, "[", "]")
      parMatches == regexMatches(formula, 1, "(", ")")
      cleaned(m) == toUpperCase(trim(without(SubSeq(formula, m[1], m[2]), {"[", "]"})))
      content(m) == toUpperCase(trim(without(SubSeq(formula, m[1], m[2]), {"(", ")"})))
      isOr(m) == includes(content(m), <<" ", "O", "R", " ">>)
      plain == SelectSeq(parMatches, LAMBDA m : ~isOr(m))
      ored == SelectSeq(parMatches, LAMBDA m : isOr(m))
      includesP == [k \in DOMAIN plain |-> content(plain[k])]
      orGroupsP == [k \in DOMAIN ored |-> trimmedAll(splitOr(content(ored[k])))]
      remaining == toUpperCase(trim(removeMatches(removeMatches(formula, "(", ")"), "[", "]")))
  IN [includes |-> IF Len(includesP) = 0 /\ Len(orGroupsP) = 0 /\ Len(remaining) > 2
                   THEN <<remaining>> ELSE includesP,
      excludes |-> flatten([k \in DOMAIN exMatches |->
                              trimmedAll(splitOr(cleaned(exMatches[k])))]),
      orGroups |-> orGroupsP,
      raw |-> formula]

\* One row of the formula sheet as a rule, or no rule: the row lacks the SKU or
\* the formula, or no part of the catalog carries the SKU.
labRuleOf(row) ==
  LET skuNorm == normalize(row.sku)
      hits == {i \in DOMAIN parts : normalize(parts[i].Part_Number) = skuNorm}
  IN IF row.sku = <<>> \/ row.formula = <<>> \/ hits = {} THEN <<>>
     ELSE << [targetPartId |-> parts[CHOOSE i \in hits : \A j \in hits : i <= j].id,
              logic |-> parseLabFormula(row.formula),
              isActive |-> TRUE] >>

\* data.map(...).filter(Boolean)
labRulesOf(data) == flatten([k \in DOMAIN data |-> labRuleOf(data[k])])

\* handleLabUpload: the reader's onload for a formula sheet. Without a catalog,
\* or with a sheet without a usable row, it only raises the error message and
\* keeps the rules.
handleLabUpload(data) ==
  /\ rendered
  /\ IF Len(parts) = 0
     THEN error' = ImportFirst /\ UNCHANGED labRules
     ELSE IF Len(labRulesOf(data)) > 0
          THEN labRules' = labRulesOf(data) /\ error' = NoError
          ELSE error' = NoMatchingSkus /\ UNCHANGED labRules
  /\ lastOp' = "handleLabUpload"
  /\ UNCHANGED <<isProcessing, inFlight, settled>>
  /\ UNCHANGED labVars
  /\ UNCHANGED pureVars
  /\ UNCHANGED <<build, parts, rules, selectedIds, moSelectedIds, searchTerm, proposals,
                 now, edits, switches>>
  /\ UNCHANGED solverVars
  /\ UNCHANGED <<results, resultsBatch, logicVerified, allOptions, detectedModel,
                 modelName, knowledgeBase, glossary>>

-----------------------------------------------------------------------------
(* Order matching: scoring of an order *)

\* The rules the order check evaluates, both rule sets merged.
moLogicRules_merged == labRules \o rules

\* The rules the order check evaluates: the laboratory rules only.
moLogicRules == labRules

\* ruleList.find(r => r.targetPartId === id), as a sequence of at most one rule.
findRule(ruleList, id) ==
  LET hits == {k \in DOMAIN ruleList : ruleList[k].targetPartId = id}
  IN IF hits = {} THEN <<>> ELSE <<ruleList[CHOOSE k \in hits : \A j \in hits : k <= j]>>

\* `${opt.category} ${opt.selection}`.toUpperCase()
entryOf(opt) == toUpperCase(opt.category \o <<" ">> \o opt.selection)

\* pages.flatMap(p => p.options || [])
optionsOf(pages) == flatten([k \in DOMAIN pages |-> pages[k].options])

\* The model of the order: the first page model that is present and not Generic,
\* upper-cased; Generic when no page names one.
modelsOf(pages) == SelectSeq([k \in DOMAIN pages |-> pages[k].model],
                             LAMBDA m : m # <<>> /\ m # Generic)

detectedModelOf(pages) ==
  IF Len(modelsOf(pages)) > 0 THEN toUpperCase(modelsOf(pages)[1]) ELSE Generic

\* moContextTokens: every option's entry and its tokens longer than two characters.
contextTokensOf(options) ==
  UNION {{entryOf(options[k])} \cup Range(longTokens(entryOf(options[k]))) :
           k \in DOMAIN options}

\* moContextRaw: " | " and the entry, for every option in turn.
RECURSIVE contextRawOf(_)
contextRawOf(options) ==
  IF options = <<>> THEN <<>>
  ELSE <<" ", "|", " ">> \o entryOf(Head(options)) \o contextRawOf(Tail(options))

\* knowledgeBase[detectedModel] || []
modelHistoryOf(model) ==
  IF model \in DOMAIN knowledgeBase THEN knowledgeBase[model] ELSE <<>>

\* What an order run computes once and every option's scoring reads: the context
\* tokens and raw text of all options, the history of the detected model and the
\* part index.
runOf(options, model) ==
  [moContextTokens |-> contextTokensOf(options),
   moContextRaw |-> contextRawOf(options),
   modelHistory |-> modelHistoryOf(model),
   partIndex |-> partIndex]

\* rule && evaluateLogic(rule, moContextTokens, moContextRaw) for the part.
ruleVerified(p, run) ==
  /\ findRule(moLogicRules, p.id) # <<>>
  /\ evaluateLogic(findRule(moLogicRules, p.id)[1], run.moContextTokens, run.moContextRaw)

isLearned(ip, opt, modelHistory) ==
  \E h \in DOMAIN modelHistory :
    /\ normalize(modelHistory[h].category) = normalize(opt.category)
    /\ normalize(modelHistory[h].selection) = normalize(opt.selection)
    /\ normalize(modelHistory[h].partNumber) = ip.pn

semanticScore(ip, opt) ==
  LET queryTokens == longTokens(entryOf(opt))
      hits == Cardinality({k \in DOMAIN queryTokens : queryTokens[k] \in ip.tokens})
  IN IF Len(queryTokens) > 0 THEN Rat(hits, Len(queryTokens)) ELSE Rat(0, 1)

\* The score of one indexed part for one option of the order.
scoreOf(ip, opt, run) ==
  IF ruleVerified(ip.part, run) THEN Rat(18, 10)
  ELSE LET byId == IF includes(entryOf(opt), ip.pn) THEN Rat(12, 10) ELSE Rat(0, 1)
           byHistory == IF isLearned(ip, opt, run.modelHistory)
                        THEN Math_max(byId, Rat(11, 10)) ELSE byId
       IN Math_max(byHistory, semanticScore(ip, opt))

\* partIndex.forEach from part k on: [bestMatch, topScore], bestMatch an index of
\* partIndex or 0 for null.
RECURSIVE bestFrom(_, _, _, _)
bestFrom(k, best, opt, run) ==
  IF k > Len(run.partIndex) THEN best
  ELSE LET score == scoreOf(run.partIndex[k], opt, run)
       IN bestFrom(k + 1,
                   IF ratLess(best.topScore, score)
                   THEN [bestMatch |-> k, topScore |-> score] ELSE best,
                   opt, run)

bestOf(opt, run) == bestFrom(1, [bestMatch |-> 0, topScore |-> Rat(0, 1)], opt, run)

\* The level with the cut-point of REVIEW_NEEDED dropped.
levelOf_twoLevels(topScore) ==
  IF ratGeq(topScore, Rat(9, 10)) THEN "AUTO_VERIFIED" ELSE "UNCERTAIN"

levelOf(topScore) ==
  IF ratGeq(topScore, Rat(15, 10)) THEN "AUTO_VERIFIED"
  ELSE IF ratGeq(topScore, Rat(9, 10)) THEN "AUTO_VERIFIED"
  ELSE IF ratGeq(topScore, Rat(5, 10)) THEN "REVIEW_NEEDED"
  ELSE "UNCERTAIN"

finalSourceOf(best, run) ==
  IF ratGeq(best.topScore, Rat(15, 10)) THEN "Logic"
  ELSE IF ratGeq(best.topScore, Rat(9, 10))
       THEN IF \E h \in DOMAIN run.modelHistory :
                 /\ best.bestMatch # 0
                 /\ run.modelHistory[h].partNumber = run.partIndex[best.bestMatch].pn
            THEN "Learned" ELSE "AI"
  ELSE IF ratGeq(best.topScore, Rat(5, 10)) THEN "Hybrid"
  ELSE "None"

\* The id of a result without a matched part.
NoPart == <<>>

\* The entry pushed to resultsBatch for one option.
optionResult(opt, run) ==
  LET best == bestOf(opt, run)
  IN IF best.bestMatch # 0 /\ ratGeq(best.topScore, Rat(5, 10))
     THEN [category |-> opt.category, selection |-> opt.selection,
           matchedPart |-> run.partIndex[best.bestMatch].part.id,
           confidence |-> Math_min(best.topScore, Rat(1, 1)),
           level |-> levelOf(best.topScore),
           source |-> finalSourceOf(best, run)]
     ELSE [category |-> opt.category, selection |-> opt.selection,
           matchedPart |-> NoPart,
           confidence |-> best.topScore,
           level |-> levelOf(best.topScore),
           source |-> "None"]

resultsBatchOf(options, run) == [k \in DOMAIN options |-> optionResult(options[k], run)]

LabCheck == <<"L","a","b"," ","S","y","n","t","h","e","s","i","s"," ","C","h","e","c","k">>

VerifiedBy == <<"V","e","r","i","f","i","e","d"," ","b","y"," ","F","o","r","m","u","l","a",":"," ">>

\* The entries of logicVerified: one for every part whose rule is accepted.
logicVerifiedOf(run) ==
  LET fired == SelectSeq(parts, LAMBDA p : ruleVerified(p, run))
  IN [k \in DOMAIN fired |->
        [category |-> LabCheck,
         selection |-> VerifiedBy \o findRule(moLogicRules, fired[k].id)[1].logic.raw,
         matchedPart |-> fired[k].id,
         confidence |-> Rat(1, 1),
         level |-> "AUTO_VERIFIED",
         source |-> "Logic"]]

\* resultsBatch without the entries whose part is among the rule-verified ones.
cleanBatchOf(batch, verified) ==
  SelectSeq(batch, LAMBDA r : r.matchedPart = NoPart
                                \/ \A v \in DOMAIN verified : verified[v].matchedPart # r.matchedPart)

matchedIds(entries) == {entries[k].matchedPart : k \in DOMAIN entries} \ {NoPart}

\* What handleFileUpload does with the pages once every response has been read:
\* the model, the outcomes and the auto-selection.
orderRun(pages) ==
  LET options == optionsOf(pages)
      model == detectedModelOf(pages)
      run == runOf(options, model)
      batch == resultsBatchOf(options, run)
      verified == logicVerifiedOf(run)
      autoSelectedIds == matchedIds(verified) \cup matchedIds(batch)
  IN /\ detectedModel' = model
     /\ modelName' = IF Len(modelsOf(pages)) > 0 THEN model ELSE modelName
     /\ allOptions' = options
     /\ resultsBatch' = batch
     /\ logicVerified' = verified
     /\ results' = verified \o cleanBatchOf(batch, verified)
     /\ IF autoSelectedIds # {}
        THEN moSelectedIds' = autoSelectedIds /\ restartSolver
        ELSE UNCHANGED moSelectedIds /\ UNCHANGED solverVars

\* handleFileUpload of the order screen from the choice of the files to the end,
\* for an order whose every response parses into one of the pages and with no
\* other run in flight: the flag is raised, the error cleared, the pages
\* processed and the flag lowered.
MOProvision_handleFileUpload(pages) ==
  /\ rendered
  /\ Len(pages) > 0
  /\ Len(parts) > 0
  /\ inFlight = <<>>
  /\ orderRun(pages)
  /\ isProcessing' = FALSE
  /\ error' = NoError
  /\ lastOp' = "MOProvision_handleFileUpload"
  /\ UNCHANGED labVars
  /\ UNCHANGED pureVars
  /\ UNCHANGED <<build, parts, rules, selectedIds, searchTerm, proposals, now, edits,
                 switches, labRules, knowledgeBase, glossary, inFlight, settled>>

-----------------------------------------------------------------------------
(* Inputs *)

Row(pn, name, fcode, ref, pref, logic) ==
  [pn |-> pn, name |-> name, rem |-> <<>>, stdRem |-> <<>>, fcode |-> fcode,
   ref |-> ref, pref |-> pref, logic |-> logic]

\* Two exclusive groups (CAB with two members, General with one) besides a
\* mandatory part; the second CAB member carries a formula the mandatory part meets.
CabSheet ==
  << Row(<<"1","0","0">>, <<"S","e","a","t">>, <<"0">>, <<>>, <<>>, <<>>),
     Row(<<"A","1">>, <<"C","a","b"," ","a","l","p","h","a">>, <<"2">>, <<"C","A","B">>, <<"1">>, <<>>),
     Row(<<"B","2">>, <<"C","a","b"," ","b","e","t","a">>, <<"2">>, <<"C","A","B">>, <<"2">>, <<"S","E","A","T">>),
     Row(<<"C","3">>, <<"L","a","m","p">>, <<"2">>, <<>>, <<>>, <<>>) >>

\* An exclusive group mixed with an optional part, and an optional group.
MixSheet ==
  << Row(<<"A","1">>, <<"H","o","r","n"," ","b","e","t","a">>, <<"2">>, <<"A","U","X">>, <<"0">>, <<>>),
     Row(<<"B","2">>, <<"L","a","m","p">>, <<"1">>, <<"A","U","X">>, <<"3">>, <<>>),
     Row(<<"C","3">>, <<"M","i","r","r","o","r">>, <<"9">>, <<"O","P","T">>, <<"2">>, <<"L","A","M","P">>) >>

ScreenSheets == {CabSheet, MixSheet}

\* A chain of five rules, as many as the solver has passes, each met only by the text of the previous target, seeded
\* by a mandatory part whose name contains SEAT.
ChainSheet ==
  << Row(<<"0">>, <<"D","r","i","v","e","r"," ","s","e","a","t">>, <<"0">>, <<>>, <<>>, <<>>),
     Row(<<"1">>, <<"A","A">>, <<"1">>, <<>>, <<>>, <<"S","E","A","T">>),
     Row(<<"2">>, <<"B","B">>, <<"1">>, <<>>, <<>>, <<"A","A">>),
     Row(<<"3">>, <<"C","C">>, <<"1">>, <<>>, <<>>, <<"B","B">>),
     Row(<<"4">>, <<"D","D">>, <<"1">>, <<>>, <<>>, <<"C","C">>),
     Row(<<"5">>, <<"E","E">>, <<"1">>, <<>>, <<>>, <<"D","D">>) >>

\* Two rules that depend on each other's target text, and a third fed by both.
CycleSheet ==
  << Row(<<"7">>, <<"X","X">>, <<"2">>, <<"G">>, <<>>, <<"Y","Y">>),
     Row(<<"8">>, <<"Y","Y">>, <<"2">>, <<"G">>, <<>>, <<"X","X">>),
     Row(<<"9">>, <<"Z","Z">>, <<"1">>, <<>>, <<>>, <<"(","X","X","/","Y","Y",")"," ","[","Q","Q","]">>) >>

SolverSheets == {ChainSheet, CycleSheet}

\* A mandatory part, a rule with an OR-group and an exclude, a rule whose include
\* is a mere substring of a context token, and an inert part with a formula.
RuleSheet ==
  << Row(<<"1","0","0">>, <<"S","e","a","t"," ","b","e","l","t">>, <<"x">>, <<>>, <<>>, <<>>),
     Row(<<"A","1">>, <<"C","a","b">>, <<"1">>, <<"C","A","B">>, <<>>, <<"(","S","E","A","T","/","C","A","N",")"," ","[","T","T","]">>),
     Row(<<"B","2">>, <<"T","T"," ","k","i","t">>, <<"2">>, <<"K","I","T">>, <<>>, <<"L","T">>),
     Row(<<"C","3">>, <<"S","p","a","r","e">>, <<"5">>, <<>>, <<>>, <<"S","E","A","T">>) >>

RuleSheets == {RuleSheet}

Proposal(partNumber, expression) ==
  [partNumber |-> partNumber, proposedExpression |-> expression]

\* The proposals a restore point may hold when the laboratory is mounted.
RestorePoints ==
  { <<>>,
    << Proposal(<<"c","-","3">>, <<"[","T","T","]">>), Proposal(<<"a","1">>, <<"B","E","L","T">>), Proposal(<<"z","z">>, <<"X">>) >>,
    << Proposal(<<"0","1","0","0">>, <<"(","C","A","B",")">>) >> }

-----------------------------------------------------------------------------
(* Specifications *)

\* No learned mappings and no glossary.
NoKnowledge ==
  /\ knowledgeBase = <<>>
  /\ glossary = <<>>

\* The laboratory after mount, before datasets are uploaded: no run.
LabIdle ==
  /\ isTraining = FALSE
  /\ cooldownRemaining = 0
  /\ allSkus = <<>>
  /\ skusToProcess = <<>>
  /\ clusterStart = 0
  /\ retryCount = 0
  /\ synthPc = "idle"
  /\ requests = 0
  /\ sent = {}

\* No function is being applied.
NoCall ==
  /\ call = <<>>
  /\ value = <<>>
  /\ applied = 0

\* The application after construction: no catalog, no rules, nothing selected.
Blank ==
  /\ build \in Builds
  /\ parts = <<>>
  /\ rules = <<>>
  /\ selectedIds = {}
  /\ moSelectedIds = {}
  /\ searchTerm = <<>>
  /\ now = 1
  /\ currentLogicSelected = <<>>
  /\ firedInPass = <<>>
  /\ changed = TRUE
  /\ iterations = 0
  /\ edits = 0
  /\ switches = 0
  /\ lastOp = ""
  /\ labRules = <<>>
  /\ results = <<>>
  /\ allOptions = <<>>
  /\ resultsBatch = <<>>
  /\ logicVerified = <<>>
  /\ detectedModel = Generic
  /\ modelName = Generic
  /\ isProcessing = FALSE
  /\ error = NoError
  /\ inFlight = <<>>
  /\ settled = <<>>
  /\ LabIdle

\* The rest of the application's state right after an import: nothing selected,
\* nothing matched, the solver about to start.
Untouched ==
  /\ selectedIds = {}
  /\ moSelectedIds = {}
  /\ searchTerm = <<>>
  /\ now = 1
  /\ currentLogicSelected = <<>>
  /\ firedInPass = <<>>
  /\ changed = TRUE
  /\ iterations = 0
  /\ edits = 0
  /\ switches = 0
  /\ lastOp = ""
  /\ labRules = <<>>
  /\ results = <<>>
  /\ allOptions = <<>>
  /\ resultsBatch = <<>>
  /\ logicVerified = <<>>
  /\ detectedModel = Generic
  /\ modelName = Generic
  /\ isProcessing = FALSE
  /\ error = NoError
  /\ inFlight = <<>>
  /\ settled = <<>>
  /\ LabIdle

\* The application after the import of one of the sheets S into the blank state.
Imported(S) ==
  /\ build \in Builds
  /\ \E sheet \in S :
       /\ parts = mappedParts(sheet, 0)
       /\ rules = autoRules(1, <<>>, sheet, mappedParts(sheet, 0))
  /\ Untouched

\* The whole application: import, edit, deployment, rule switch, order run,
\* toggle and the solver.
Init == Blank /\ proposals \in RestorePoints /\ checkpoint = proposals /\ NoKnowledge /\ NoCall

Next ==
  \/ \E sheet \in RuleSheets : BOMTable_handleFileUpload(sheet)
  \/ onUpdate
  \/ deployLogic
  \/ setRuleActive
  \/ onAutoSelect
  \/ toggleSelection
  \/ solverPass

Spec == Init /\ [][Next]_vars

\* The selection screen over an imported catalog.
InitScreen == Imported(ScreenSheets) /\ proposals = <<>> /\ checkpoint = proposals /\ NoKnowledge /\ NoCall

NextScreen ==
  \/ onAutoSelect
  \/ toggleSelection
  \/ handleApplyAllSuggestions
  \/ setSearchTerm
  \/ solverPass

SpecScreen == InitScreen /\ [][NextScreen]_vars

\* The solver over catalogs with chained and cyclic rules.
InitSolver == Imported(SolverSheets) /\ proposals = <<>> /\ checkpoint = proposals /\ NoKnowledge /\ NoCall

NextSolver ==
  \/ onAutoSelect
  \/ toggleSelection
  \/ setRuleActive
  \/ solverPass

SpecSolver == InitSolver /\ [][NextSolver]_vars

-----------------------------------------------------------------------------
(* Inputs of the order screen *)

\* A mandatory part and three configurable ones; the identifier of the second
\* normalizes to A1, and the last carries the engineering formula CAB.
OrderSheet ==
  << Row(<<"0","1","0","0">>, <<"S","e","a","t"," ","b","e","l","t">>, <<"0">>, <<>>, <<>>, <<>>),
     Row(<<"A","-","1">>, <<"C","a","b"," ","h","e","a","t","e","d">>, <<"2">>, <<"C","A","B">>, <<"1">>, <<>>),
     Row(<<"B","2">>, <<"C","a","b"," ","o","p","e","n">>, <<"2">>, <<"C","A","B">>, <<"2">>, <<>>),
     Row(<<"C","3">>, <<"L","a","m","p">>, <<"1">>, <<>>, <<>>, <<"C","A","B">>) >>

Option(category, selection) == [category |-> category, selection |-> selection]

Page(model, options) == [model |-> model, options |-> options]

OptHeated == Option(<<"C","a","b">>, <<"h","e","a","t","e","d">>)

OptOpenRoof == Option(<<"C","a","b">>, <<"o","p","e","n"," ","r","o","o","f">>)

OptKit == Option(<<"K","i","t">>, <<"A","1">>)

OptHorn == Option(<<"H","o","r","n">>, <<"s","t","d"," ","k","i","t">>)

OptLampCab == Option(<<"L","a","m","p">>, <<"c","a","b">>)

\* The orders read from the files: one or two pages, with and without a model.
Orders ==
  { << Page(<<"m","t","2","2">>, <<OptLampCab, OptKit>>) >>,
    << Page(<<"m","t","2","2">>, <<OptHeated, OptOpenRoof>>) >>,
    << Page(<<"m","t","2","2">>, <<OptKit, OptHorn, OptOpenRoof>>) >>,
    << Page(<<>>, <<OptHorn, OptLampCab>>) >>,
    << Page(Generic, <<OptLampCab>>), Page(<<"m","t","2","2">>, <<OptOpenRoof, OptHeated>>) >> }

LabRow(sku, formula) == [sku |-> sku, formula |-> formula]

\* Formula sheets: one rule; two rows for the same SKU and a row for an unknown
\* one; a rule with an OR group and an exclusion; a sheet without a usable row.
LabSheets ==
  { << LabRow(<<"b","2">>, <<"(","R","O","O","F",")">>) >>,
    << LabRow(<<"B","2">>, <<"(","R","O","O","F",")">>), LabRow(<<"b","-","2">>, <<"(","c","a","b",")"," ","[","o","p","e","n","]">>), LabRow(<<"Z","Z">>, <<"(","C","A","B",")">>) >>,
    << LabRow(<<"C","3">>, <<"(","h","o","r","n"," ","O","R"," ","l","a","m","p",")"," ","[","k","i","t"," ","O","R"," ","r","o","o","f","]">>), LabRow(<<"0","1","0","0">>, <<"h","e","a","t","e","d">>) >>,
    << LabRow(<<"Z","Z">>, <<"(","C","A","B",")">>), LabRow(<<"A","1">>, <<>>) >> }

Learned(category, selection, partNumber) ==
  [category |-> category, selection |-> selection, partNumber |-> partNumber]

MT22 == <<"M","T","2","2">>

\* The learned mappings: none; the Kit option learned with the identifier as it
\* is written in the catalog, and the Horn option; the Horn option learned for A1.
KnowledgeBases ==
  { <<>>,
    MT22 :> << Learned(<<"K","i","t">>, <<"A","1">>, <<"a","-","1">>), Learned(<<"H","o","r","n">>, <<"s","t","d"," ","k","i","t">>, <<"C","3">>) >>,
    MT22 :> << Learned(<<"H","o","r","n">>, <<"s","t","d"," ","k","i","t">>, <<"A","1">>) >> }

Glossaries == { <<>>, << <<<<"L","A","M","P">>, <<"H","O","R","N">>>> >> }

\* The order screen over an imported catalog: formula uploads, order runs and
\* the solver they restart.
InitOrder ==
  /\ Imported({OrderSheet})
  /\ proposals = <<>>
  /\ checkpoint = proposals
  /\ NoCall
  /\ knowledgeBase \in KnowledgeBases
  /\ glossary \in Glossaries

NextOrder ==
  \/ \E data \in LabSheets : handleLabUpload(data)
  \/ \E pages \in Orders : MOProvision_handleFileUpload(pages)
  \/ solverPass

SpecOrder == InitOrder /\ [][NextOrder]_vars

-----------------------------------------------------------------------------
(* Properties *)

\* The keys of the exclusive groups of the whole catalog, whatever the search term.
exclusiveKeys ==
  {groupKey(configParts[i]) : i \in {j \in DOMAIN configParts : configParts[j].F_Code = 2}}

\* The ids of the configurable parts of the catalog in the group key.
membersOf(key) ==
  {configParts[i].id : i \in {j \in DOMAIN configParts : groupKey(configParts[j]) = key}}

\* The parts active from any source: user, order match or logic.
activeIds == selectedIds \cup moSelectedIds \cup logicSelectedIds

\* C1: the user selection never holds two F_Code=2 parts that share a group key.
C1_NoTwoExclusiveSelected ==
  \A i, j \in DOMAIN parts :
    (/\ i # j
     /\ parts[i].F_Code = 2 /\ parts[j].F_Code = 2
     /\ parts[i].id \in selectedIds /\ parts[j].id \in selectedIds)
    => groupKey(parts[i]) # groupKey(parts[j])

\* C2: finalization is enabled only when every exclusive group of the catalog has
\* exactly one active member, counting user, order-match and logic together.
C2_ValidOnlyWithExactlyOne ==
  (rendered /\ isValid) =>
    \A key \in exclusiveKeys : Cardinality(membersOf(key) \cap activeIds) = 1

\* C3: progress is 100 exactly when every exclusive group of the catalog has at
\* least one member that is user-selected, order-matched or logic-triggered.
C3_ProgressComplete ==
  rendered =>
    ((progress = 100) <=> \A key \in exclusiveKeys : membersOf(key) \cap activeIds # {})

hasPositiveCriterion(rule) ==
  Len(rule.logic.includes) > 0 \/ Len(rule.logic.orGroups) > 0

\* The text the solver's context tokens are split from: the texts of the
\* mandatory parts and of the selected, order-matched and triggered parts.
RECURSIVE joinTexts(_)
joinTexts(ps) ==
  IF ps = <<>> THEN <<>> ELSE partText(Head(ps)) \o <<" ">> \o joinTexts(Tail(ps))

contextRaw ==
  joinTexts(SelectSeq(parts, LAMBDA p : p.F_Code = 0 \/ p.id \in activeIds))

\* C4: a rule without includes and without OR-groups never fires: the evaluator
\* rejects it, and every part the solver triggers has a rule with a positive
\* criterion.
C4_EmptyConditionNeverFires ==
  /\ \A k \in DOMAIN rules :
       ~hasPositiveCriterion(rules[k]) =>
         ~evaluateLogic(rules[k], currentContextTokens(logicSelectedIds), contextRaw)
  /\ \A n \in DOMAIN currentLogicSelected :
       \E k \in DOMAIN rules :
         rules[k].targetPartId = currentLogicSelected[n] /\ hasPositiveCriterion(rules[k])

\* C5: the solver runs at most MAX_ITERATIONS passes, and a pass that adds no
\* part is the last pass: the loop has exited after it.
C5_SolverBounded ==
  /\ iterations <= MAX_ITERATIONS
  /\ \A p \in 1..iterations :
       (\A n \in DOMAIN firedInPass : firedInPass[n] # p) =>
         (p = iterations /\ ~solverContinues)

\* The loop has exited at the cap although its last pass still added a part: the
\* fifth pass of a chain that triggers one part per pass.
C5_Witness ==
  /\ iterations = MAX_ITERATIONS
  /\ changed
  /\ ~solverContinues
  /\ Len(currentLogicSelected) = MAX_ITERATIONS

\* C6: the solver finds a rule satisfied exactly when the evaluator accepts the
\* rule's condition on the same context tokens and the context's raw text.
C6_SolverUsesEvaluator ==
  \A k \in DOMAIN rules :
    solverSatisfied(rules[k].logic, currentContextTokens(logicSelectedIds))
      <=> evaluateLogic(rules[k], currentContextTokens(logicSelectedIds), contextRaw)

\* The ids the solver triggered in passes before pass p.
firedBefore(p) ==
  {currentLogicSelected[n] : n \in {m \in DOMAIN firedInPass : firedInPass[m] < p}}

\* The chain scenario: the mandatory part's name contains SEAT, rule 1 (includes
\* SEAT) targets part 1, rule 2 targets part 2 and includes only AA, a token of
\* part 1 alone; nothing is selected or order-matched and every rule is active.
chainScenario ==
  /\ parts = mappedParts(ChainSheet, 0)
  /\ selectedIds = {}
  /\ moSelectedIds = {}
  /\ \A k \in DOMAIN rules : rules[k].isActive

\* C7: in the chain scenario part 1 is triggered in pass 1 and part 2 in pass 2,
\* not in pass 1; and every part the solver triggers in a pass has an active rule
\* that is satisfied by the context of the parts triggered in strictly earlier
\* passes.
C7_SecondOrder ==
  /\ (chainScenario /\ iterations >= 1) =>
       /\ currentLogicSelected[1] = <<0, 1>> /\ firedInPass[1] = 1
       /\ \A n \in DOMAIN currentLogicSelected :
            currentLogicSelected[n] = <<0, 2>> => firedInPass[n] = 2
  /\ (chainScenario /\ iterations >= 2) =>
       \E n \in DOMAIN currentLogicSelected : currentLogicSelected[n] = <<0, 2>>
  /\ \A n \in DOMAIN currentLogicSelected :
       \E k \in DOMAIN rules :
         /\ rules[k].targetPartId = currentLogicSelected[n]
         /\ rules[k].isActive
         /\ solverSatisfied(rules[k].logic,
                            currentContextTokens(firedBefore(firedInPass[n])))

\* The chain scenario after its second pass: part 2 triggered in pass 2 by the
\* text of part 1, which pass 1 triggered.
C7_Witness ==
  /\ chainScenario
  /\ iterations = 2
  /\ currentLogicSelected = << <<0, 1>>, <<0, 2>> >>
  /\ firedInPass = <<1, 2>>
  /\ ~solverSatisfied(rules[2].logic, currentContextTokens({}))

\* C8: every id the solver triggered is the target of an active rule, the id of
\* a catalog part, and neither user-selected nor order-matched.
C8_SolverOutputSound ==
  \A n \in DOMAIN currentLogicSelected :
    /\ \E k \in DOMAIN rules :
         rules[k].targetPartId = currentLogicSelected[n] /\ rules[k].isActive
    /\ currentLogicSelected[n] \in partIds
    /\ currentLogicSelected[n] \notin selectedIds
    /\ currentLogicSelected[n] \notin moSelectedIds

\* C9: the solver triggers no part whose F_Code is outside {1, 2, 9}.
C9_SolverOutputConfigurable ==
  \A n \in DOMAIN currentLogicSelected :
    currentLogicSelected[n] \in partIds => isConfig(partById(currentLogicSelected[n]))

\* m is an order-matched exclusive part of u's group, other than u.
orderRival(u, m) ==
  /\ m \in moSelectedIds
  /\ m # u
  /\ m \in partIds /\ u \in partIds
  /\ partById(m).F_Code = 2
  /\ groupKey(partById(m)) = groupKey(partById(u))

exclusiveRivals(a, b) ==
  /\ a # b
  /\ a \in partIds /\ b \in partIds
  /\ partById(a).F_Code = 2 /\ partById(b).F_Code = 2
  /\ groupKey(partById(a)) = groupKey(partById(b))

\* C11: after apply-all, an order-matched F_Code=2 part that was inserted has no
\* other exclusive member of its group selected alongside it: the other members
\* were evicted before the insertion.
C11_OrderPickEvictsGroup ==
  [][handleApplyAllSuggestions =>
       \A m \in moSelectedIds :
         m \in selectedIds' => \A o \in selectedIds' : ~exclusiveRivals(m, o)]_vars

\* C12: apply-all adds an exclusive part proposed by the logic solver only if no
\* other exclusive member of its group is in the selection it is added to.
C12_LogicPickOnlyIntoEmptyGroup ==
  [][handleApplyAllSuggestions =>
       \A l \in logicSelectedIds :
         (l \notin selectedIds /\ l \notin moSelectedIds /\ l \in selectedIds')
           => \A o \in selectedIds' : ~exclusiveRivals(l, o)]_vars

-----------------------------------------------------------------------------
(* Generated BOM *)

mandatoryParts == SelectSeq(parts, LAMBDA p : p.F_Code = 0)

\* configurableParts without the F_Code test: every selected part.
configurableParts_anyCode == SelectSeq(parts, LAMBDA p : p.id \in selectedIds)

configurableParts == SelectSeq(parts, LAMBDA p : p.id \in selectedIds /\ p.F_Code # 0)

\* a.Select_pref || 99999
bomPref(p) == IF p.Select_pref = 0 THEN 99999 ELSE p.Select_pref

\* [...mandatoryParts, ...configurableParts], stably sorted by bomPref.
finalBOM ==
  LET all == mandatoryParts \o configurableParts
      before(i, j) == \/ bomPref(all[i]) < bomPref(all[j])
                      \/ bomPref(all[i]) = bomPref(all[j]) /\ i < j
      rank(i) == Cardinality({j \in DOMAIN all : before(j, i)}) + 1
  IN [r \in DOMAIN all |-> all[CHOOSE i \in DOMAIN all : rank(i) = r]]

\* C20: the final BOM holds every F_Code=0 part of the catalog whatever the
\* selection, and a part with another F_Code exactly when it is selected; no part
\* occurs twice, the BOM is ordered by preference, and no F_Code=0 part is shown
\* in a selection group.
C20_FinalBOMContents ==
  /\ \A i \in DOMAIN parts :
       (\E n \in DOMAIN finalBOM : finalBOM[n] = parts[i])
         <=> (parts[i].F_Code = 0 \/ parts[i].id \in selectedIds)
  /\ \A n \in DOMAIN finalBOM : \E i \in DOMAIN parts : parts[i] = finalBOM[n]
  /\ \A m, n \in DOMAIN finalBOM : finalBOM[m].id = finalBOM[n].id => m = n
  /\ \A m, n \in DOMAIN finalBOM : m < n => bomPref(finalBOM[m]) <= bomPref(finalBOM[n])
  /\ \A g \in DOMAIN groupedParts : \A k \in DOMAIN groupedParts[g][2] :
       groupedParts[g][2][k].F_Code # 0

\* The selection holds a mandatory part (applied from an order match) next to a
\* configurable one, and the catalog has a mandatory part.
C20_Witness ==
  /\ rendered
  /\ lastOp = "handleApplyAllSuggestions"
  /\ \E i, j \in DOMAIN parts :
       /\ parts[i].F_Code = 0 /\ parts[i].id \in selectedIds
       /\ parts[j].F_Code # 0 /\ parts[j].id \in selectedIds
  /\ Len(finalBOM) = Len(mandatoryParts) + Len(configurableParts)

\* The run of the order processed last, as the handler computed it.
lastRun == runOf(allOptions, detectedModel)

\* The last handler was an order run: labRules and the catalog are those it read.
afterOrderRun == lastOp = "MOProvision_handleFileUpload"

\* The four signals of a part for an option, each 0 when it is absent.
signals(ip, opt) ==
  { IF ruleVerified(ip.part, lastRun) THEN Rat(18, 10) ELSE Rat(0, 1),
    IF includes(entryOf(opt), ip.pn) THEN Rat(12, 10) ELSE Rat(0, 1),
    IF isLearned(ip, opt, lastRun.modelHistory) THEN Rat(11, 10) ELSE Rat(0, 1),
    semanticScore(ip, opt) }

largest(S) == CHOOSE a \in S : \A b \in S : ~ratLess(a, b)

\* C13: the score of a part for an option is the largest of its four signals,
\* and the part chosen for the option is the first part of the catalog whose
\* score is the largest of all parts; no part is chosen when every score is 0,
\* and the part is attached to the outcome from 0.5 on.
C13_ScoreIsMaxOfSignals ==
  afterOrderRun =>
    \A i \in DOMAIN allOptions :
      LET opt == allOptions[i]
          index == lastRun.partIndex
          best == bestOf(opt, lastRun)
          top == largest({largest(signals(index[k], opt)) : k \in DOMAIN index})
          firstTop == CHOOSE k \in DOMAIN index :
                        /\ largest(signals(index[k], opt)) = top
                        /\ \A j \in 1..(k - 1) : largest(signals(index[j], opt)) # top
      IN /\ \A k \in DOMAIN index :
              scoreOf(index[k], opt, lastRun) = largest(signals(index[k], opt))
         /\ best.topScore = top
         /\ best.bestMatch = IF top = Rat(0, 1) THEN 0 ELSE firstTop
         /\ resultsBatch[i].matchedPart =
              IF ratGeq(top, Rat(5, 10)) THEN index[firstTop].part.id ELSE NoPart

\* An order run in which a part has two signals at once (identifier and history)
\* for an option, and two parts tie for the largest score of another option.
C13_Witness ==
  /\ afterOrderRun
  /\ \E i \in DOMAIN allOptions : \E k \in DOMAIN partIndex :
       /\ includes(entryOf(allOptions[i]), partIndex[k].pn)
       /\ isLearned(partIndex[k], allOptions[i], lastRun.modelHistory)
       /\ bestOf(allOptions[i], lastRun).bestMatch = k
       /\ resultsBatch[i].confidence = Rat(1, 1)
  /\ \E i \in DOMAIN allOptions : \E j, k \in DOMAIN partIndex :
       /\ j < k
       /\ bestOf(allOptions[i], lastRun).bestMatch = j
       /\ scoreOf(partIndex[j], allOptions[i], lastRun)
            = scoreOf(partIndex[k], allOptions[i], lastRun)

\* C14: when the option's text contains the normalized identifier of the winning
\* part and the part's rule does not fire, the part scores exactly 1.2 and the
\* outcome is AUTO_VERIFIED, with provenance Learned exactly when the history of
\* the detected model holds an entry matching the option and the part by
\* normalized category, selection and identifier, and AI otherwise.
C14_IdentifierMatchProvenance ==
  afterOrderRun =>
    \A i \in DOMAIN allOptions :
      LET opt == allOptions[i]
          best == bestOf(opt, lastRun)
          ip == lastRun.partIndex[best.bestMatch]
      IN (/\ best.bestMatch # 0
          /\ includes(entryOf(opt), ip.pn)
          /\ ~ruleVerified(ip.part, lastRun))
         => /\ best.topScore = Rat(12, 10)
            /\ resultsBatch[i].level = "AUTO_VERIFIED"
            /\ resultsBatch[i].source =
                 IF isLearned(ip, opt, lastRun.modelHistory) THEN "Learned" ELSE "AI"

\* C15: the outcome of an option follows the cut-points of its winning score s:
\* s >= 1.5 AUTO_VERIFIED with provenance Logic; 0.9 <= s < 1.5 AUTO_VERIFIED
\* with provenance Learned or AI; 0.5 <= s < 0.9 REVIEW_NEEDED with provenance
\* Hybrid; s < 0.5 UNCERTAIN with provenance None and no part, and the option
\* adds no part to the auto-selected set.
C15_CutPoints ==
  afterOrderRun =>
    /\ \A i \in DOMAIN allOptions :
         LET s == bestOf(allOptions[i], lastRun).topScore
             r == resultsBatch[i]
         IN /\ ratGeq(s, Rat(15, 10)) =>
                 r.level = "AUTO_VERIFIED" /\ r.source = "Logic" /\ r.matchedPart # NoPart
            /\ (ratGeq(s, Rat(9, 10)) /\ ratLess(s, Rat(15, 10))) =>
                 r.level = "AUTO_VERIFIED" /\ r.source \in {"Learned", "AI"}
                   /\ r.matchedPart # NoPart
            /\ (ratGeq(s, Rat(5, 10)) /\ ratLess(s, Rat(9, 10))) =>
                 r.level = "REVIEW_NEEDED" /\ r.source = "Hybrid" /\ r.matchedPart # NoPart
            /\ ratLess(s, Rat(5, 10)) =>
                 r.level = "UNCERTAIN" /\ r.source = "None" /\ r.matchedPart = NoPart
                   /\ r.confidence = s
    /\ \A id \in matchedIds(logicVerified) \cup matchedIds(resultsBatch) : id \in moSelectedIds
    /\ matchedIds(logicVerified) \cup matchedIds(resultsBatch) # {} =>
         moSelectedIds = matchedIds(logicVerified) \cup matchedIds(resultsBatch)

\* One order run with an outcome in each of the three lower bands: verified by
\* the identifier, review needed, and uncertain with a best part that scores
\* below 0.5 and is not auto-selected.
C15_Witness ==
  /\ afterOrderRun
  /\ \E i, j, k \in DOMAIN resultsBatch :
       /\ resultsBatch[i].level = "AUTO_VERIFIED" /\ resultsBatch[i].source = "AI"
       /\ resultsBatch[j].level = "REVIEW_NEEDED"
       /\ resultsBatch[k].level = "UNCERTAIN"
       /\ bestOf(allOptions[k], lastRun).bestMatch # 0
       /\ partIndex[bestOf(allOptions[k], lastRun).bestMatch].part.id \notin moSelectedIds

\* C16: the outcome of an option is the outcome of scoring that option alone:
\* rules are evaluated on the option's own category and selection text, so the
\* other options of the order do not change it.
C16_OptionIndependent ==
  afterOrderRun =>
    \A i \in DOMAIN allOptions :
      resultsBatch[i] = optionResult(allOptions[i], runOf(<<allOptions[i]>>, detectedModel))

\* C17: after an order run the result list holds the rule-verified entries
\* followed by exactly one outcome for every option of the order, in order.
C17_OneOutcomePerOption ==
  afterOrderRun =>
    /\ Len(results) = Len(logicVerified) + Len(allOptions)
    /\ \A i \in DOMAIN allOptions :
         /\ Len(logicVerified) + i \in DOMAIN results
         /\ results[Len(logicVerified) + i].category = allOptions[i].category
         /\ results[Len(logicVerified) + i].selection = allOptions[i].selection

\* The targets of a rule list.
targetsOf(ruleList) == {ruleList[k].targetPartId : k \in DOMAIN ruleList}

\* C18: a step that changes the laboratory rules leaves the engineering rules,
\* the solver and the results alone; an order run marks as rule-verified only
\* parts whose laboratory rule the evaluator accepts, whatever the engineering
\* rules; and the solver triggers only targets of engineering rules.
C18_RuleSetsSeparate ==
  [][/\ labRules' # labRules =>
          /\ rules' = rules
          /\ UNCHANGED solverVars
          /\ UNCHANGED <<results, resultsBatch, logicVerified, moSelectedIds, selectedIds>>
     /\ lastOp' = "MOProvision_handleFileUpload" =>
          /\ matchedIds(logicVerified') \subseteq targetsOf(labRules)
          /\ \A k \in DOMAIN resultsBatch' :
               resultsBatch'[k].source = "Logic" =>
                 resultsBatch'[k].matchedPart \in targetsOf(labRules)
     /\ Range(currentLogicSelected') \subseteq targetsOf(rules)]_vars

\* An order run with a laboratory rule accepted for one part while an engineering
\* rule for another part, which the order's text would satisfy, stays out of it;
\* the solver has triggered the engineering rule's target, which has no
\* laboratory rule.
C18_Witness ==
  /\ lastOp = "MOProvision_handleFileUpload"
  /\ logicVerified # <<>>
  /\ \E k \in DOMAIN rules :
       /\ rules[k].targetPartId \notin targetsOf(labRules)
       /\ evaluateLogic(rules[k], lastRun.moContextTokens, lastRun.moContextRaw)
       /\ rules[k].targetPartId \notin matchedIds(logicVerified)
       /\ rules[k].targetPartId \in Range(currentLogicSelected)
  /\ \E id \in targetsOf(labRules) : id \notin Range(currentLogicSelected)

\* C19: each rule set holds at most one rule per target part.
C19_OneRulePerTarget ==
  /\ \A i, j \in DOMAIN rules : rules[i].targetPartId = rules[j].targetPartId => i = j
  /\ \A i, j \in DOMAIN labRules : labRules[i].targetPartId = labRules[j].targetPartId => i = j
(* Order matches applied to the selection, up to the generated BOM *)

\* The order catalog with an inert last part (F_Code 5) in place of the lamp.
InertSheet ==
  << Row(<<"0","1","0","0">>, <<"S","e","a","t"," ","b","e","l","t">>, <<"0">>, <<>>, <<>>, <<>>),
     Row(<<"A","-","1">>, <<"C","a","b"," ","h","e","a","t","e","d">>, <<"2">>, <<"C","A","B">>, <<"1">>, <<>>),
     Row(<<"B","2">>, <<"C","a","b"," ","o","p","e","n">>, <<"2">>, <<"C","A","B">>, <<"2">>, <<>>),
     Row(<<"C","3">>, <<"S","p","a","r","e"," ","l","a","m","p">>, <<"5">>, <<>>, <<>>, <<>>) >>

OptSpareLamp == Option(<<"S","p","a","r","e">>, <<"l","a","m","p">>)

\* Orders that name the inert part's text, alone and next to a cab option.
InertOrders ==
  { << Page(<<"m","t","2","2">>, <<OptSpareLamp>>) >>,
    << Page(<<"m","t","2","2">>, <<OptHeated, OptSpareLamp>>) >>,
    << Page(<<>>, <<OptOpenRoof>>) >> }

InitBOM ==
  /\ Imported({InertSheet})
  /\ proposals = <<>>
  /\ checkpoint = proposals
  /\ NoCall
  /\ NoKnowledge

NextBOM ==
  \/ \E pages \in InertOrders : MOProvision_handleFileUpload(pages)
  \/ toggleSelection
  \/ handleApplyAllSuggestions
  \/ solverPass

SpecBOM == InitBOM /\ [][NextBOM]_vars

\* C21: whatever order runs, toggles and apply-all have put into the selection,
\* every part of the final BOM has an F_Code among 0, 1, 2, 9.
C21_NoInertPartInBOM ==
  \A n \in DOMAIN finalBOM : finalBOM[n].F_Code \in {0, 1, 2, 9}
-----------------------------------------------------------------------------
(* Order runs in flight: the awaits of handleFileUpload *)

\* The response of the extraction service for one file: a text JSON.parse reads
\* as the page, or a text it throws on.
Response(page) == [parses |-> TRUE, page |-> page]

Unparseable == [parses |-> FALSE, page |-> Page(<<>>, <<>>)]

\* response.text || '{}' for a response without text: no model, no options.
NoText == Response(Page(<<>>, <<>>))

JSON_parse(response) == response.page

\* Upper bound on the number of order runs in flight at one time.
MaxRuns == 2

\* handleFileUpload up to its first await: the guards, the flag and the error;
\* the run then awaits the responses for its files.
handleFileUpload_begin(responses, hasKey) ==
  /\ rendered
  /\ Len(responses) > 0
  /\ Len(parts) > 0
  /\ Len(inFlight) < MaxRuns
  /\ IF ~hasKey
     THEN error' = ApiKeyMissing /\ UNCHANGED <<isProcessing, inFlight>>
     ELSE /\ isProcessing' = TRUE
          /\ error' = NoError
          /\ inFlight' = Append(inFlight, responses)
  /\ lastOp' = "handleFileUpload_begin"
  /\ UNCHANGED labVars
  /\ UNCHANGED pureVars
  /\ UNCHANGED <<build, parts, rules, selectedIds, moSelectedIds, searchTerm, proposals,
                 now, edits, switches, settled>>
  /\ UNCHANGED solverVars
  /\ UNCHANGED <<labRules, results, allOptions, resultsBatch, logicVerified, detectedModel,
                 modelName, knowledgeBase, glossary>>

\* handleFileUpload from Promise.all to the end, for the run at position k: a
\* response JSON.parse throws on rejects the whole Promise.all and the catch
\* block raises the error; otherwise the pages are processed; the finally block
\* lowers the flag.
handleFileUpload_settle(k) ==
  LET responses == inFlight[k]
      pages == [i \in DOMAIN responses |-> JSON_parse(responses[i])]
  IN /\ rendered
     /\ inFlight' = SubSeq(inFlight, 1, k - 1) \o SubSeq(inFlight, k + 1, Len(inFlight))
     /\ settled' = responses
     /\ IF \E i \in DOMAIN responses : ~responses[i].parses
        THEN /\ error' = ProcessingFailed
             /\ UNCHANGED <<moSelectedIds, results, allOptions, resultsBatch, logicVerified,
                            detectedModel, modelName>>
             /\ UNCHANGED solverVars
        ELSE /\ orderRun(pages)
             /\ UNCHANGED error
     /\ isProcessing' = FALSE
     /\ lastOp' = "handleFileUpload_settle"
     /\ UNCHANGED labVars
     /\ UNCHANGED pureVars
     /\ UNCHANGED <<build, parts, rules, selectedIds, searchTerm, proposals, now, edits,
                    switches, labRules, knowledgeBase, glossary>>

\* The responses to the files of an order: one page; two pages, the first without
\* text; an unparseable response before and after a page with options.
Uploads ==
  { << Response(Page(<<"m","t","2","2">>, <<OptHeated, OptKit>>)) >>,
    << NoText, Response(Page(<<"m","t","2","2">>, <<OptLampCab>>)) >>,
    << Unparseable, Response(Page(<<"m","t","2","2">>, <<OptHeated>>)) >>,
    << Response(Page(<<>>, <<OptOpenRoof>>)), Unparseable >> }

InitUpload ==
  /\ Imported({OrderSheet})
  /\ proposals = <<>>
  /\ checkpoint = proposals
  /\ NoCall
  /\ NoKnowledge

NextUpload ==
  \/ \E responses \in Uploads : \E hasKey \in BOOLEAN : handleFileUpload_begin(responses, hasKey)
  \/ \E k \in DOMAIN inFlight : handleFileUpload_settle(k)
  \/ solverPass

SpecUpload == InitUpload /\ [][NextUpload]_vars

\* The pages of the responses with every unparseable response read as a page
\* without model and options.
defended(responses) ==
  [i \in DOMAIN responses |-> IF responses[i].parses THEN JSON_parse(responses[i])
                                                      ELSE Page(<<>>, <<>>)]

\* C22: when a run whose responses include an unparseable one settles, no error
\* is raised and the results are those of the run over the other documents'
\* options: the rule-verified entries and the outcomes of their options.
C22_UnparseableDocumentSkipped ==
  (/\ lastOp = "handleFileUpload_settle"
   /\ \E i \in DOMAIN settled : ~settled[i].parses)
  => LET options == optionsOf(defended(settled))
         run == runOf(options, detectedModelOf(defended(settled)))
         verified == logicVerifiedOf(run)
     IN /\ error = NoError
        /\ results = verified \o cleanBatchOf(resultsBatchOf(options, run), verified)

\* C30: the processing flag is raised exactly while an order run is in flight.
C30_ProcessingWhileInFlight ==
  isProcessing <=> inFlight # <<>>
-----------------------------------------------------------------------------
(* The identifier normalizers applied to identifiers *)

\* Upper bound on the number of times a function is applied to its own value.
MaxApplications == 2

\* Upper bound on the length of the identifiers drawn.
MaxIdLen == 3

IdChars == {"0", "1", "a", "A", "-"}

\* The identifiers: every text of at most MaxIdLen characters, the two
\* identifiers of the specification's example, and a missing one.
Identifiers ==
  UNION {[1..n -> IdChars] : n \in 0..MaxIdLen}
    \cup {<<"0","0","A","-","1","2","3","b">>, <<"A","1","2","3","B">>, Undefined}

Normalizers == {"normalize", "normalizeId"}

normalized(fn, x) == IF fn = "normalize" THEN normalize(x) ELSE normalizeId(x)

\* The normalizer applied to the value it returned last (first, to the identifier).
applyNormalize ==
  /\ call.fn \in Normalizers
  /\ applied < MaxApplications
  /\ value' = normalized(call.fn, value)
  /\ applied' = applied + 1
  /\ UNCHANGED <<call, appVars, solverVars, orderVars, labVars>>

InitNormalize ==
  /\ Blank
  /\ proposals = <<>>
  /\ checkpoint = proposals
  /\ NoKnowledge
  /\ call \in [fn : Normalizers, args : Identifiers]
  /\ value = call.args
  /\ applied = 0

NextNormalize == applyNormalize

SpecNormalize == InitNormalize /\ [][NextNormalize]_vars

\* Identifiers that differ from x only in case, punctuation and leading zeros.
variants(x) ==
  { toLowerCase(x), toUpperCase(x), <<"0">> \o x, <<"0", "0">> \o x, <<"-">> \o x,
    x \o <<".">>, SelectSeq(x, LAMBDA c : c # "-") }

\* C26: a normalizer applied to its own result returns the result; identifiers
\* that differ only in case, punctuation and leading zeros have the same normal
\* form, 00A-123b and A123B among them; a missing or empty identifier has the
\* empty normal form.
C26_NormalizeIdempotent ==
  LET x == call.args
      fn == call.fn
  IN (call # <<>> /\ fn \in Normalizers) =>
       /\ applied >= 1 => value = normalized(fn, x)
       /\ x # Undefined => \A y \in variants(x) : normalized(fn, y) = normalized(fn, x)
       /\ (x = <<"0","0","A","-","1","2","3","b">> /\ applied >= 1) => value = <<"A","1","2","3","B">>
       /\ (x \in {<<>>, Undefined} /\ applied >= 1) => value = <<>>

\* The normalizer has been applied twice to 00A-123b.
C26_Witness ==
  /\ call # <<>>
  /\ call.fn \in Normalizers
  /\ applied = 2
  /\ call.args = <<"0","0","A","-","1","2","3","b">>
  /\ value = <<"A","1","2","3","B">>
-----------------------------------------------------------------------------
(* The formula parsers applied to formulas *)

Parsers == {"parseLogicString", "parseFormula", "parseLabFormula"}

parsed(fn, formula) ==
  IF fn = "parseLogicString" THEN parseLogicString(formula)
  ELSE IF fn = "parseFormula" THEN parseFormula(formula)
  ELSE parseLabFormula(formula)

\* Join the non-empty pieces with single spaces.
RECURSIVE joined(_)
joined(pieces) ==
  IF pieces = <<>> THEN <<>>
  ELSE IF Head(pieces) = <<>> THEN joined(Tail(pieces))
  ELSE IF joined(Tail(pieces)) = <<>> THEN Head(pieces)
  ELSE Head(pieces) \o <<" ">> \o joined(Tail(pieces))

\* The formulas: an optional OR group in either dialect or a lone bracketed term,
\* an optional bare term, an optional exclusion; (CAB/CAN) MT22 [TT] among them.
Formulas ==
  { joined(<<g, t, x>>) :
      g \in {<<>>, <<"(","C","A","B","/","C","A","N",")">>, <<"(","C","A","B"," ","O","R"," ","C","A","N",")">>, <<"(","c","a","b",")">>},
      t \in {<<>>, <<"M","T","2","2">>},
      x \in {<<>>, <<"[","T","T","]">>, <<"[","T","T"," ","O","R"," ","X","X","]">>} }

ExampleFormula == <<"(","C","A","B","/","C","A","N",")"," ","M","T","2","2"," ","[","T","T","]">>

\* One of the parsers applied to a formula.
applyParser ==
  /\ call.fn \in Parsers
  /\ applied = 0
  /\ value' = parsed(call.fn, call.args)
  /\ applied' = 1
  /\ UNCHANGED <<call, appVars, solverVars, orderVars, labVars>>

InitParsers ==
  /\ Blank
  /\ proposals = <<>>
  /\ checkpoint = proposals
  /\ NoKnowledge
  /\ call \in [fn : Parsers, args : Formulas]
  /\ value = <<>>
  /\ applied = 0

NextParsers == applyParser

SpecParsers == InitParsers /\ [][NextParsers]_vars

\* C25: each of the three parsers reads (CAB/CAN) MT22 [TT] as the OR group
\* CAB, CAN, the include MT22 and the exclude TT.
C25_ExampleParsedAlike ==
  (call # <<>> /\ call.fn \in Parsers /\ call.args = ExampleFormula /\ applied = 1) =>
    /\ value.orGroups = << <<<<"C","A","B">>, <<"C","A","N">>>> >>
    /\ value.includes = << <<"M","T","2","2">> >>
    /\ value.excludes = << <<"T","T">> >>
-----------------------------------------------------------------------------
(* The evaluator applied to conditions and contexts *)

\* The conditions: none or one include, none, one or two excludes or the empty
\* exclude term of "[ ]", none or one OR group; upper-cased as the parsers leave them.
Conditions ==
  [includes : {<<>>, <<<<"M","T","2","2">>>>, <<<<"C","A","B">>>>},
   excludes : {<<>>, <<<<"T","T">>>>, <<<<"X","X">>, <<"T","T">>>>, <<<<>>>>},
   orGroups : {<<>>, << <<<<"C","A","B">>, <<"C","A","N">>>> >>},
   raw : {<<>>}]

\* The contexts: the tokens are upper-case words, the raw text is the order text
\* before upper-casing.
Contexts ==
  [moContextTokens : SUBSET {<<"M","T","2","2">>, <<"T","T">>, <<"C","A","B","I","N">>},
   moContextRaw : {<<>>, <<"M","T","2","2"," ","C","A","B","I","N">>, <<"M","T","2","2"," ","C","A","B","I","N"," ","T","T">>, <<"m","t","2","2"," ","c","a","b","i","n"," ","t","t">>, <<"C","A","N"," ","M","T","T","2">>}]

\* evaluateLogic applied to a rule with the condition and to the context.
applyEvaluateLogic ==
  /\ call.fn = "evaluateLogic"
  /\ applied = 0
  /\ value' = evaluateLogic([logic |-> call.args.logic],
                            call.args.context.moContextTokens,
                            call.args.context.moContextRaw)
  /\ applied' = 1
  /\ UNCHANGED <<call, appVars, solverVars, orderVars, labVars>>

InitEvaluate ==
  /\ Blank
  /\ proposals = <<>>
  /\ checkpoint = proposals
  /\ NoKnowledge
  /\ call \in [fn : {"evaluateLogic"}, args : [logic : Conditions, context : Contexts]]
  /\ value = <<>>
  /\ applied = 0

NextEvaluate == applyEvaluateLogic

SpecEvaluate == InitEvaluate /\ [][NextEvaluate]_vars

\* The call of the specification's example: includes MT22, excludes TT, the one
\* token MT22, and the given raw text.
isExample(raw) ==
  /\ call.args.logic.includes = <<<<"M","T","2","2">>>>
  /\ call.args.logic.excludes = <<<<"T","T">>>>
  /\ call.args.logic.orGroups = <<>>
  /\ call.args.context.moContextTokens = {<<"M","T","2","2">>}
  /\ call.args.context.moContextRaw = raw

-----------------------------------------------------------------------------
(* The solver over reordered catalogs and rule lists *)

\* A rule fed by a mandatory part, a rule fed by the first target and a rule fed
\* by the second; the first and the third are vetoed by the text of a part that
\* has no rule of its own.
VetoSheet ==
  << Row(<<"0">>, <<"D","r","i","v","e","r"," ","s","e","a","t">>, <<"0">>, <<>>, <<>>, <<>>),
     Row(<<"1">>, <<"A","A">>, <<"1">>, <<>>, <<>>, <<"S","E","A","T"," ","[","K","I","T","]">>),
     Row(<<"2">>, <<"B","B">>, <<"1">>, <<>>, <<>>, <<"A","A">>),
     Row(<<"3">>, <<"C","C">>, <<"1">>, <<>>, <<>>, <<"B","B"," ","[","D","D","]">>),
     Row(<<"4">>, <<"D","D"," ","k","i","t">>, <<"1">>, <<>>, <<>>, <<>>) >>

\* A chain of six rules, one more than the solver has passes.
DeepSheet ==
  << Row(<<"0">>, <<"D","r","i","v","e","r"," ","s","e","a","t">>, <<"0">>, <<>>, <<>>, <<>>),
     Row(<<"1">>, <<"A","A">>, <<"1">>, <<>>, <<>>, <<"S","E","A","T">>),
     Row(<<"2">>, <<"B","B">>, <<"1">>, <<>>, <<>>, <<"A","A">>),
     Row(<<"3">>, <<"C","C">>, <<"1">>, <<>>, <<>>, <<"B","B">>),
     Row(<<"4">>, <<"D","D">>, <<"1">>, <<>>, <<>>, <<"C","C">>),
     Row(<<"5">>, <<"E","E">>, <<"1">>, <<>>, <<>>, <<"D","D">>),
     Row(<<"6">>, <<"F","F">>, <<"1">>, <<>>, <<>>, <<"E","E">>) >>

ShuffleSheets == {VetoSheet, DeepSheet}

\* The longest list of which every order is drawn; a longer list is drawn in
\* its own order and reversed.
MaxShuffle == 3

reversed(list) == [i \in DOMAIN list |-> list[Len(list) + 1 - i]]

permuted(list) ==
  {[i \in DOMAIN list |-> list[p[i]]] : p \in Permutations(DOMAIN list)}

Arrangements(list) ==
  IF Len(list) <= MaxShuffle THEN permuted(list) ELSE {list, reversed(list)}

\* The selection screen over a catalog whose parts and rules arrive in any of
\* these orders, every part keeping its id.
InitShuffle ==
  /\ build \in Builds
  /\ \E sheet \in ShuffleSheets :
       /\ parts \in Arrangements(mappedParts(sheet, 0))
       /\ rules \in Arrangements(autoRules(1, <<>>, sheet, mappedParts(sheet, 0)))
  /\ Untouched
  /\ proposals = <<>>
  /\ checkpoint = proposals
  /\ NoKnowledge
  /\ NoCall

NextShuffle ==
  \/ onAutoSelect
  \/ toggleSelection
  \/ solverPass

SpecShuffle == InitShuffle /\ [][NextShuffle]_vars

\* The tokens of the mandatory parts and of the parts with an id in ids, read
\* from the set of parts.
contextOf(ids) ==
  UNION {tokenize(p) : p \in {q \in Range(parts) : q.F_Code = 0 \/ q.id \in ids}}

\* The active rules with a target in the catalog that is neither selected,
\* order-matched nor triggered, as a set.
openRules(cur) ==
  {r \in Range(rules) :
     /\ r.isActive
     /\ r.targetPartId \in {p.id : p \in Range(parts)}
     /\ r.targetPartId \notin selectedIds \cup moSelectedIds \cup cur}

\* C27 as stated: when the solver has returned, it ran exactly 5 passes or no
\* open rule is satisfied by the context of the mandatory, the selected and the
\* triggered parts.
C27_FixedPointWithoutOrder ==
  rendered =>
    \/ iterations = 5
    \/ \A r \in openRules(logicSelectedIds) :
         ~solverSatisfied(r.logic, contextOf(selectedIds \cup logicSelectedIds))

\* C27: when the solver has returned, it ran exactly 5 passes or no open rule
\* is satisfied by the context of the mandatory, the selected, the
\* order-matched and the triggered parts.
C27_FixedPoint ==
  rendered =>
    \/ iterations = 5
    \/ \A r \in openRules(logicSelectedIds) :
         ~solverSatisfied(r.logic,
            contextOf(selectedIds \cup moSelectedIds \cup logicSelectedIds))

\* The solver has returned before its fifth pass with a triggered part, and an
\* open rule is held back only by the text of an order-matched part.
C27_Witness ==
  /\ rendered
  /\ iterations < 5
  /\ logicSelectedIds # {}
  /\ \E r \in openRules(logicSelectedIds) :
       /\ solverSatisfied(r.logic, contextOf(selectedIds \cup logicSelectedIds))
       /\ ~solverSatisfied(r.logic,
             contextOf(selectedIds \cup moSelectedIds \cup logicSelectedIds))

\* The solver has returned after its fifth pass and a rule is still open and
\* satisfied: the sixth rule of the chain.
C27_Capped ==
  /\ rendered
  /\ iterations = 5
  /\ \E r \in openRules(logicSelectedIds) :
       solverSatisfied(r.logic,
          contextOf(selectedIds \cup moSelectedIds \cup logicSelectedIds))

\* The skip test of the build in use.
skipped(rule, cur) ==
  IF build = "components" THEN solverSkips(rule, cur) ELSE solverSkips_part001(rule, cur)

\* The targets one pass adds to the triggered set cur, read from the set of
\* rules and the set of parts.
passTargets(cur) ==
  {r.targetPartId :
     r \in {x \in Range(rules) :
              /\ ~skipped(x, cur)
              /\ x.targetPartId \in {p.id : p \in Range(parts)}
              /\ solverSatisfied(x.logic,
                    contextOf(selectedIds \cup moSelectedIds \cup cur))}}

\* The triggered set after n passes.
RECURSIVE triggeredAfter(_)
triggeredAfter(n) ==
  IF n = 0 THEN {}
  ELSE LET cur == triggeredAfter(n - 1) IN cur \cup passTargets(cur)

\* The triggered set once no pass adds a part or 5 passes have run, n passes
\* having produced cur.
RECURSIVE solved(_, _)
solved(cur, n) ==
  IF n = 5 \/ passTargets(cur) = {} THEN cur
  ELSE solved(cur \cup passTargets(cur), n + 1)

\* C28: the solver's output is a function of the set of rules, the set of
\* parts, the selection and the order match alone: after every pass the
\* triggered set is the one computed from these sets against the context at the
\* start of each pass, and so is the set the solver returns.
C28_OrderIndependent ==
  /\ logicSelectedIds = triggeredAfter(iterations)
  /\ rendered => logicSelectedIds = solved({}, 0)

\* The solver has returned on a catalog listed backwards with the rule of the
\* third target first, after a pass in which two rules fired.
C28_Witness ==
  /\ rendered
  /\ parts[1].F_Code # 0
  /\ rules[1].targetPartId = <<0, 3>>
  /\ Len(rules) = 3
  /\ \E n \in DOMAIN firedInPass : \E k \in DOMAIN firedInPass :
       n # k /\ firedInPass[n] = firedInPass[k]
-----------------------------------------------------------------------------
(* The synthesis laboratory *)

CLUSTER_SIZE == 5

RPM_LIMIT == 10

COOLDOWN_SECONDS == 65

\* setCooldownRemaining(30) after a rate-limit error.
RATE_LIMIT_SECONDS == 30

\* Requests of one cluster and proposals in the list beyond which the model
\* does not follow a run.
MaxRequests == 3

MaxProposals == 9

\* Six configurable parts and a mandatory one.
LabSheet ==
  << Row(<<"A","1">>, <<"C","a","b">>, <<"1">>, <<>>, <<>>, <<>>),
     Row(<<"B","2">>, <<"C","a","n","o","p","y">>, <<"2">>, <<"R","O","O","F">>, <<"1">>, <<>>),
     Row(<<"C","3">>, <<"L","a","m","p">>, <<"1">>, <<>>, <<>>, <<>>),
     Row(<<"D","4">>, <<"H","o","r","n">>, <<"1">>, <<>>, <<>>, <<>>),
     Row(<<"E","5">>, <<"M","i","r","r","o","r">>, <<"1">>, <<>>, <<>>, <<>>),
     Row(<<"F","6">>, <<"R","o","o","f">>, <<"2">>, <<"R","O","O","F">>, <<"2">>, <<>>),
     Row(<<"G","7">>, <<"S","e","a","t">>, <<"0">>, <<>>, <<>>, <<>>) >>

\* Object.keys(skuContexts) of the uploaded datasets before the copy in
\* src/unnamed filters them: one cluster, and two clusters.
Datasets ==
  { << <<"A","1">>, <<"0","B","2">> >>,
    << <<"A","1">>, <<"0","B","2">>, <<"C","3">>, <<"D","4">>, <<"E","5">>, <<"F","6">>, <<"G","7">> >> }

NoFiles == <<"none">>

\* The identifier has a master part with F_Code 1 or 2 (the first part whose
\* normalized number matches).
isLogicTarget(pn) ==
  /\ \E i \in DOMAIN parts : normalizeId(parts[i].Part_Number) = normalizeId(pn)
  /\ LET i == CHOOSE i \in DOMAIN parts :
                /\ normalizeId(parts[i].Part_Number) = normalizeId(pn)
                /\ \A j \in 1..(i - 1) : normalizeId(parts[j].Part_Number) # normalizeId(pn)
     IN parts[i].F_Code \in {1, 2}

\* allSkus of a run on the dataset.
skusOf(dataset) ==
  IF build = "components" THEN dataset ELSE SelectSeq(dataset, isLogicTarget)

\* allSkus.filter(s => !currentProcessed.has(s))
unprocessed(skus) ==
  LET fresh(s) == \A k \in DOMAIN proposals : proposals[k].partNumber # s
  IN SelectSeq(skus, fresh)

\* skusToProcess.slice(i, i + CLUSTER_SIZE)
cluster ==
  SubSeq(skusToProcess, clusterStart + 1,
         IF clusterStart + CLUSTER_SIZE < Len(skusToProcess)
         THEN clusterStart + CLUSTER_SIZE ELSE Len(skusToProcess))

\* What the synthesis service may answer to the request of a cluster: an array
\* that names the identifiers as sent, an array that names them without
\* punctuation and leading zeros and gives no expression, a payload that is no
\* array, a rate-limit error, another error.
Echoed(ids) == [k \in DOMAIN ids |-> [partNumber |-> ids[k], expression |-> <<"(","C","A","B",")">>]]

Rewritten(ids) == [k \in DOMAIN ids |-> [partNumber |-> normalizeId(ids[k]), expression |-> <<>>]]

Answers(ids) ==
  { [kind |-> "array", items |-> Echoed(ids)],
    [kind |-> "array", items |-> Rewritten(ids)],
    [kind |-> "nonArray", items |-> <<>>],
    [kind |-> "429", items |-> <<>>],
    [kind |-> "error", items |-> <<>>] }

\* batchResults.map(bp => ...): bp.expression || '(N/A)', '(ERROR)' in src/unnamed.
mappedResults(items) ==
  [k \in DOMAIN items |->
     Proposal(items[k].partNumber,
              IF items[k].expression # <<>> THEN items[k].expression
              ELSE IF build = "components" THEN <<"(","N","/","A",")">> ELSE <<"(","E","R","R","O","R",")">>)]

\* The run leaves the cluster: the next one, after the pacing cooldown when
\* its number is a multiple of RPM_LIMIT, or the finally block.
clusterDone ==
  IF clusterStart + CLUSTER_SIZE < Len(skusToProcess)
  THEN /\ clusterStart' = clusterStart + CLUSTER_SIZE
       /\ retryCount' = 0
       /\ requests' = 0
       /\ isTraining' = isTraining
       /\ skusToProcess' = skusToProcess
       /\ IF ((clusterStart + CLUSTER_SIZE) \div CLUSTER_SIZE) % RPM_LIMIT = 0
          THEN cooldownRemaining' = COOLDOWN_SECONDS /\ synthPc' = "pacing"
          ELSE cooldownRemaining' = cooldownRemaining /\ synthPc' = "request"
  ELSE /\ isTraining' = FALSE
       /\ cooldownRemaining' = 0
       /\ synthPc' = "idle"
       /\ skusToProcess' = <<>>
       /\ clusterStart' = 0
       /\ retryCount' = 0
       /\ requests' = 0

\* A click on the synthesis button, enabled while no run is on and no cooldown
\* is counting: the guards, the datasets read, the identifiers left to process.
startLogicSynthesis ==
  /\ ~isTraining
  /\ cooldownRemaining = 0
  /\ \E hasKey \in BOOLEAN : \E files \in Datasets \cup {NoFiles} :
       IF ~hasKey \/ files = NoFiles
       THEN UNCHANGED labVars
       ELSE /\ allSkus' = skusOf(files)
            /\ sent' = {}
            /\ clusterStart' = 0
            /\ retryCount' = 0
            /\ requests' = 0
            /\ cooldownRemaining' = 0
            /\ checkpoint' = checkpoint
            /\ IF unprocessed(skusOf(files)) = <<>>
               THEN /\ isTraining' = FALSE
                    /\ skusToProcess' = <<>>
                    /\ synthPc' = "idle"
               ELSE /\ isTraining' = TRUE
                    /\ skusToProcess' = unprocessed(skusOf(files))
                    /\ synthPc' = "request"
  /\ lastOp' = "startLogicSynthesis"
  /\ UNCHANGED <<build, parts, rules, selectedIds, moSelectedIds, searchTerm, proposals,
                 now, edits, switches>>
  /\ UNCHANGED <<solverVars, orderVars, pureVars>>

\* One request of the current cluster and the service's answer to it.
generateContent ==
  /\ synthPc = "request"
  /\ requests < MaxRequests
  /\ sent' = sent \cup Range(cluster)
  /\ allSkus' = allSkus
  /\ \E resp \in Answers(cluster) :
       CASE resp.kind = "array" ->
              /\ Len(proposals) + Len(resp.items) <= MaxProposals
              /\ proposals' = proposals \o mappedResults(resp.items)
              /\ checkpoint' = proposals \o mappedResults(resp.items)
              /\ clusterDone
         [] resp.kind = "nonArray" ->
              /\ UNCHANGED <<proposals, checkpoint>>
              /\ IF build = "components"
                 THEN /\ requests' = requests + 1
                      /\ UNCHANGED <<isTraining, cooldownRemaining, skusToProcess,
                                     clusterStart, retryCount, synthPc>>
                 ELSE clusterDone
         [] resp.kind = "429" ->
              /\ UNCHANGED <<proposals, checkpoint>>
              /\ IF build = "components"
                 THEN /\ requests' = requests + 1
                      /\ cooldownRemaining' = RATE_LIMIT_SECONDS
                      /\ synthPc' = "cooling"
                      /\ UNCHANGED <<isTraining, skusToProcess, clusterStart, retryCount>>
                 ELSE clusterDone
         [] OTHER ->
              /\ UNCHANGED <<proposals, checkpoint>>
              /\ clusterDone
  /\ lastOp' = "generateContent"
  /\ UNCHANGED <<build, parts, rules, selectedIds, moSelectedIds, searchTerm,
                 now, edits, switches>>
  /\ UNCHANGED <<solverVars, orderVars, pureVars>>

\* The interval timer of the cooldown display: Math.max(0, prev - 1).
cooldownTick ==
  /\ cooldownRemaining > 0
  /\ cooldownRemaining' = cooldownRemaining - 1
  /\ UNCHANGED <<isTraining, checkpoint, allSkus, synthVars>>
  /\ UNCHANGED <<appVars, solverVars, orderVars, pureVars>>

\* await delay(...) of a cooldown returns, about when the display reaches 0:
\* after a rate-limit error the retry is counted and the cluster is requested
\* again or left; after the pacing cooldown the cluster is requested.
delayEnds ==
  /\ synthPc \in {"cooling", "pacing"}
  /\ cooldownRemaining <= 1
  /\ IF synthPc = "pacing"
     THEN /\ synthPc' = "request"
          /\ UNCHANGED <<isTraining, cooldownRemaining, skusToProcess, clusterStart,
                         retryCount, requests>>
     ELSE IF retryCount + 1 < 2
          THEN /\ retryCount' = retryCount + 1
               /\ synthPc' = "request"
               /\ UNCHANGED <<isTraining, cooldownRemaining, skusToProcess, clusterStart,
                              requests>>
          ELSE clusterDone
  /\ lastOp' = "delayEnds"
  /\ UNCHANGED <<checkpoint, allSkus, sent>>
  /\ UNCHANGED <<build, parts, rules, selectedIds, moSelectedIds, searchTerm, proposals,
                 now, edits, switches>>
  /\ UNCHANGED <<solverVars, orderVars, pureVars>>

\* The reset button, shown while the list has proposals, confirmed.
clearSession ==
  /\ Len(proposals) > 0
  /\ proposals' = <<>>
  /\ checkpoint' = <<>>
  /\ lastOp' = "clearSession"
  /\ UNCHANGED <<isTraining, cooldownRemaining, allSkus, synthVars>>
  /\ UNCHANGED <<build, parts, rules, selectedIds, moSelectedIds, searchTerm,
                 now, edits, switches>>
  /\ UNCHANGED <<solverVars, orderVars, pureVars>>

\* The page is loaded again while the laboratory is open: a run in progress is
\* gone, and the mount effect restores the proposals of the restore point.
remount ==
  /\ proposals' = checkpoint
  /\ isTraining' = FALSE
  /\ cooldownRemaining' = 0
  /\ allSkus' = <<>>
  /\ skusToProcess' = <<>>
  /\ clusterStart' = 0
  /\ retryCount' = 0
  /\ synthPc' = "idle"
  /\ requests' = 0
  /\ sent' = {}
  /\ checkpoint' = checkpoint
  /\ lastOp' = "remount"
  /\ UNCHANGED <<build, parts, rules, selectedIds, moSelectedIds, searchTerm,
                 now, edits, switches>>
  /\ UNCHANGED <<solverVars, orderVars, pureVars>>

InitLab ==
  /\ build \in Builds
  /\ parts = mappedParts(LabSheet, 0)
  /\ rules = autoRules(1, <<>>, LabSheet, mappedParts(LabSheet, 0))
  /\ Untouched
  /\ proposals = <<>>
  /\ checkpoint = proposals
  /\ NoKnowledge
  /\ NoCall

NextLab ==
  \/ startLogicSynthesis
  \/ generateContent
  \/ cooldownTick
  \/ delayEnds
  \/ clearSession
  \/ remount

SpecLab == InitLab /\ [][NextLab]_vars

\* C23: no part identifier appears twice in the proposals list.
C23_NoIdentifierTwice ==
  \A i \in DOMAIN proposals : \A j \in DOMAIN proposals :
    i # j => proposals[i].partNumber # proposals[j].partNumber

\* C29: a cluster is requested at most twice.
C29_AtMostTwoRequests == requests <= 2

====
